---- MODULE Spec2Model ----
(***************************************************************************)
(* Batch video encoder: the per-file encode job (CRFEncoder and the        *)
(* CustomEncoder built on HevcEncoder / SVTAV1Encoder) and the resumable   *)
(* batch scheduler (BatchEncoder).                                         *)
(*                                                                         *)
(* The external tools (ffprobe, ffmpeg, libvmaf) and the file system are   *)
(* the environment: their outcomes are inputs drawn with \E.  The stream   *)
(* attributes is_metadata and duration are read by the encoders            *)
(* (encoder.py:277, custom_encoder.py:151,168) and are taken as part of    *)
(* the probed stream description.                                          *)
(*                                                                         *)
(* The directory holds NFiles candidates.  The scan looks at the           *)
(* candidates' own paths; the files the jobs create beside them (final     *)
(* paths of non-mp4 candidates, temporary outputs left behind) are kept    *)
(* on disk but are not taken up as further candidates.  Failures of        *)
(* writing or reading the state file are not part of Spec.                 *)
(*                                                                         *)
(* Specifications: SpecJob (one encoder object, any configuration), Spec   *)
(* (the batch scheduler over process starts), SpecScan (the constructor's  *)
(* scan or resume alone, on a wider choice of files and thresholds),       *)
(* SpecFault (the scheduler with failing writes of the state file),        *)
(* SpecArgs (the CRF and preset arguments of the encoder variants),        *)
(* SpecProgress (the progress loop of _encode), SpecReplace (the replace   *)
(* step from any state of the two files), SpecPaths (the paths a job       *)
(* generates, with leftover files on disk), SpecLoad (the start of the     *)
(* batch on state files that lack keys) and SpecRun (the scheduler with    *)
(* no interrupt, the steps of its loop weakly fair).                       *)
(***************************************************************************)
EXTENDS Integers, Sequences, FiniteSets, TLC

\* ------------------------------------------------------------------ bounds
NFiles == 2          \* candidate files in the directory
MaxSize == 2         \* file sizes range over 1..MaxSize
MaxRuns == 2         \* process starts of the batch program
MaxLines == 5        \* lines read from the transcoder's progress stream

Files == 1..NFiles
Sizes == 1..MaxSize
Suffixes == 0..MaxRuns

\* Python's None for optional numbers
None == 0 - 1

\* ------------------------------------------------------- stream descriptions
\* VideoStream: codec, container tag, width, height, is_metadata, duration known
VStream(codec, tag, w, h, meta, dur) ==
    [codec |-> codec, tag |-> tag, width |-> w, height |-> h,
     is_metadata |-> meta, duration |-> dur]

\* AudioStream: codec and bit rate (None when unknown)
AStream(codec, br) == [codec |-> codec, bit_rate |-> br]

\* RESOLUTION: label -> pixel count
RESOLUTION(r) ==
    CASE r = "4k" -> 3840 * 2160
      [] r = "2k" -> 2560 * 1440
      [] r = "1080p" -> 1920 * 1080
      [] r = "720p" -> 1280 * 720
      [] r = "480p" -> 640 * 480
      [] r = "360p" -> 480 * 360
      [] OTHER -> 0

\* BatchEncoder.EFFICIENT_CODEC
EFFICIENT_CODEC == {"av1", "hevc", "vp9", "vvc", "theora"}

\* audio codecs copied without re-encoding
compatible_codecs == {"aac", "alac", "ac3", "eac3", "mp4a"}

\* the ffmpeg encoder name of each codec choice (get_custom_encoding_class)
EncoderOf(codec) == IF codec = "hevc" THEN "libx265" ELSE "libsvtav1"

\* ------------------------------------------------------------ sequence helpers
InSeq(x, s) == \E i \in 1..Len(s) : s[i] = x

RECURSIVE Flatten(_)
Flatten(ss) == IF ss = <<>> THEN <<>> ELSE Head(ss) \o Flatten(Tail(ss))

\* ------------------------------------------------------------ command builder
\* VideoStream.map_prefix / AudioStream.map_prefix (stream indexes elided)
map_prefix_v == <<"-map", "0:v", "-c:v">>
map_prefix_a == <<"-map", "0:a", "-c:a">>

\* variant: a copied stream keeps its tag
hevc_video_args_noretag(vs, ignore_codec) ==
    IF vs.codec \in ignore_codec
    THEN map_prefix_v \o <<"copy">>
    ELSE map_prefix_v \o <<"libx265", "-preset", "preset", "-tag:v", "hvc1", "-crf", "crf">>

\* HevcEncoder.prepare_video_args, the arguments of one stream
hevc_video_args(vs, ignore_codec) ==
    IF vs.codec \in ignore_codec
    THEN IF vs.tag = "hev1"
         THEN map_prefix_v \o <<"copy", "-tag:v", "hvc1">>
         ELSE map_prefix_v \o <<"copy">>
    ELSE map_prefix_v \o <<"libx265", "-preset", "preset", "-tag:v", "hvc1", "-crf", "crf">>

\* CRFEncoder.prepare_video_args extended by PresetCRFEncoder and SVTAV1Encoder
av1_video_args(vs, ignore_codec) ==
    IF vs.codec \in ignore_codec \/ vs.is_metadata
    THEN map_prefix_v \o <<"copy">>
    ELSE map_prefix_v \o <<"libsvtav1", "-crf:v", "crf", "-pix_fmt:v", "pix_fmt",
                            "-preset:v", "preset", "-g", "keyint",
                            "-svtav1-params", "tune">>

\* prepare_video_args of the CustomEncoder for the chosen codec, one list per stream
prepare_video_args(codec, v, ignore_codec) ==
    [i \in 1..Len(v) |->
        IF codec = "hevc" THEN hevc_video_args(v[i], ignore_codec)
                          ELSE av1_video_args(v[i], ignore_codec)]

\* variant: every audio stream is re-encoded, compatible or not
prepare_audio_args_reencode(a) ==
    [i \in 1..Len(a) |->
        IF a[i].bit_rate # None
        THEN map_prefix_a \o <<"aac", "-b:a", "bitrate">>
        ELSE map_prefix_a \o <<"aac", "-q:a", "1">>]

\* CRFEncoder.prepare_audio_args, one list per stream
prepare_audio_args(a) ==
    [i \in 1..Len(a) |->
        IF a[i].codec \in compatible_codecs
        THEN map_prefix_a \o <<"copy">>
        ELSE IF a[i].bit_rate # None
             THEN map_prefix_a \o <<"aac", "-b:a", "bitrate">>
             ELSE map_prefix_a \o <<"aac", "-q:a", "1">>]

\* variant: a retagged copy counts as nothing to encode
NothingToEncode_retag(encoder, video_args, audio_args) ==
    /\ ~InSeq(encoder, Flatten(video_args))
    /\ \A i \in 1..Len(audio_args) : InSeq("copy", audio_args[i])

\* the "nothing to encode" test of CRFEncoder.prepare_cmd
NothingToEncode(encoder, video_args, audio_args) ==
    /\ ~InSeq(encoder, Flatten(video_args))
    /\ ~InSeq("hvc1", Flatten(video_args))
    /\ \A i \in 1..Len(audio_args) : InSeq("copy", audio_args[i])

NoCmd == <<>>

\* CRFEncoder.prepare_cmd with CustomEncoder.prepare_cmd: NoCmd stands for None
prepare_cmd(codec, v, a, ignore_codec) ==
    LET video_args == prepare_video_args(codec, v, ignore_codec)
        audio_args == prepare_audio_args(a)
    IN  IF Flatten(video_args) = <<>> THEN NoCmd
        ELSE IF NothingToEncode(EncoderOf(codec), video_args, audio_args) THEN NoCmd
        ELSE <<"ffmpeg", "-y", "-i", "input">> \o Flatten(video_args) \o Flatten(audio_args)
             \o <<"-c:s", "copy", "-movflags", "+faststart">>
             \o <<"-progress", "pipe:1", "-nostats">> \o <<"output">>

\* ------------------------------------------------------------------ file system
\* A file's content: its size and what a probe of it reports.  gen counts the
\* encodes that produced it (0 for a file found in the directory), so an encoded
\* output never equals the content it was encoded from.
Content(size, v, a, gen) == [size |-> size, v |-> v, a |-> a, gen |-> gen]

\* no file at the path
Absent == [size |-> 0, v |-> <<>>, a |-> <<>>, gen |-> 0]

\* what an aborted transcoder run leaves at the output path
Partial == [size |-> 1, v |-> <<>>, a |-> <<>>, gen |-> None]

\* Paths.  <<f, "orig", 0>> is candidate f; <<f, "new", k>> is <stem>.mp4 (k = 0)
\* or <stem>_k.mp4; <<f, "tmp_<codec>", k>> is <stem><suffix>.mp4 or
\* <stem><suffix>_k.mp4, the suffix naming the encoder class.
PathKinds == {"new", "tmp_hevc", "tmp_av1"}
AllPaths == (Files \X {"orig"} \X {0}) \cup (Files \X PathKinds \X Suffixes)
OrigPath(f) == <<f, "orig", 0>>

\* the first numeric suffix whose path names no file (the loops of
\* generate_tmp_output_path and generate_new_file_path)
FirstFree(d, f, kind) ==
    CHOOSE k \in Suffixes :
        /\ d[<<f, kind, k>>] = Absent
        /\ \A j \in Suffixes : j < k => d[<<f, kind, j>>] # Absent

\* variant: the first candidate name is taken without looking at the disk
generate_tmp_output_path_first(d, f, codec) ==
    LET kind == IF codec = "hevc" THEN "tmp_hevc" ELSE "tmp_av1"
    IN  <<f, kind, 0>>

\* CRFEncoder.generate_tmp_output_path
generate_tmp_output_path(d, f, codec) ==
    LET kind == IF codec = "hevc" THEN "tmp_hevc" ELSE "tmp_av1"
    IN  <<f, kind, FirstFree(d, f, kind)>>

\* CRFEncoder.generate_new_file_path; is_mp4: the original is <stem>.mp4 itself
generate_new_file_path(d, f, is_mp4, delete_original, output_tmp_file) ==
    IF ~delete_original THEN output_tmp_file
    ELSE IF is_mp4 THEN OrigPath(f)
    ELSE <<f, "new", FirstFree(d, f, "new")>>

\* ------------------------------------------------------------------ the transcoder
\* The streams ffmpeg writes for the built command: an encoded video stream is in
\* the target codec, a copied one keeps its codec (retagged when asked), audio is
\* copied or becomes aac.
TranscodedVideo(codec, v, ignore_codec) ==
    LET args == prepare_video_args(codec, v, ignore_codec)
    IN  [i \in 1..Len(v) |->
            IF InSeq(EncoderOf(codec), args[i])
            THEN [v[i] EXCEPT !.codec = codec,
                              !.tag = IF codec = "hevc" THEN "hvc1" ELSE "av01"]
            ELSE IF InSeq("hvc1", args[i]) THEN [v[i] EXCEPT !.tag = "hvc1"]
            ELSE v[i]]

TranscodedAudio(a) ==
    [i \in 1..Len(a) |->
        IF a[i].codec \in compatible_codecs THEN a[i] ELSE [a[i] EXCEPT !.codec = "aac"]]

\* ------------------------------------------------------------------ EncodingStatus
SKIPPED == "skipped"
SUCCESS == "success"
FAILED == "failed"
LOWQUALITY == "low quality"
LARGESIZE == "large size"
EncodingStatus == {SKIPPED, SUCCESS, FAILED, LOWQUALITY, LARGESIZE}

\* ------------------------------------------------------------------ job steps
\* variant: the temporary output is never deleted
delete_encoded_keep(d, tmp, unlink_ok) == d

\* CRFEncoder._delete_encoded: unlink_ok = FALSE is the PermissionError/OSError branch
delete_encoded(d, tmp, unlink_ok) ==
    IF d[tmp] # Absent /\ unlink_ok THEN [d EXCEPT ![tmp] = Absent] ELSE d

\* variant: the threshold is applied ten points lower
BelowThreshold_lenient(vmaf_score, delete_threshold) == vmaf_score < delete_threshold - 10

\* variant: a score equal to the threshold is below it
BelowThreshold_inclusive(vmaf_score, delete_threshold) == vmaf_score <= delete_threshold

\* the score test of CRFEncoder._verify
BelowThreshold(vmaf_score, delete_threshold) == vmaf_score < delete_threshold

\* variant: a missing score passes the verification
verify_status_open(verify, probe, vmaf_score, delete_threshold) ==
    IF ~verify THEN SUCCESS
    ELSE IF probe = "corrupt" THEN FAILED
    ELSE IF vmaf_score = None THEN SUCCESS
    ELSE IF BelowThreshold(vmaf_score, delete_threshold) THEN LOWQUALITY
    ELSE SUCCESS

\* CRFEncoder._verify.  probe: "corrupt" when the output cannot be probed
\* (ValueError), else "ok"; vmaf_score: None when MediaFile.compare returns None.
verify_status(verify, probe, vmaf_score, delete_threshold) ==
    IF ~verify THEN SUCCESS
    ELSE IF probe = "corrupt" THEN FAILED
    ELSE IF vmaf_score = None THEN FAILED
    ELSE IF BelowThreshold(vmaf_score, delete_threshold) THEN LOWQUALITY
    ELSE SUCCESS

\* variant: an output of exactly the original's size passes the size check
TooLarge_strict(encoded_size, original_size) == encoded_size > original_size

\* the size test of CRFEncoder.clean_up
TooLarge(encoded_size, original_size) == encoded_size >= original_size

\* the size check of CRFEncoder.clean_up, entered with status SUCCESS
size_check_status(d, orig, tmp) ==
    IF d[orig] # Absent /\ d[tmp] # Absent
    THEN IF TooLarge(d[tmp].size, d[orig].size) THEN LARGESIZE ELSE SUCCESS
    ELSE IF d[tmp] = Absent THEN FAILED ELSE SUCCESS

\* variant: a failed deletion or rename is logged and SUCCESS is returned
replace_original_quiet(d, orig, tmp, new, fs) ==
    IF d[tmp] # Absent
    THEN IF fs = "unlink_fail" \/ d[orig] = Absent
         THEN [status |-> SUCCESS, disk |-> d, replace |-> "unlink_fail"]
         ELSE IF fs = "rename_fail"
         THEN [status |-> SUCCESS, disk |-> [d EXCEPT ![orig] = Absent],
               replace |-> "rename_fail"]
         ELSE [status |-> SUCCESS,
               disk |-> [[[d EXCEPT ![orig] = Absent] EXCEPT ![new] = d[tmp]]
                             EXCEPT ![tmp] = IF new = tmp THEN d[tmp] ELSE Absent],
               replace |-> "ok"]
    ELSE [status |-> SUCCESS, disk |-> d, replace |-> "none"]

\* CRFEncoder._replace_original.  fs is the file system's answer: "ok",
\* "unlink_fail" (the original cannot be deleted) or "rename_fail".  The field
\* replace tells what the replacement met ("none": nothing was replaced).
replace_original(d, orig, tmp, new, fs) ==
    IF d[tmp] # Absent
    THEN IF fs = "unlink_fail" \/ d[orig] = Absent
         THEN [status |-> FAILED, disk |-> d, replace |-> "unlink_fail"]
         ELSE IF fs = "rename_fail"
         THEN [status |-> FAILED, disk |-> [d EXCEPT ![orig] = Absent],
               replace |-> "rename_fail"]
         ELSE [status |-> SUCCESS,
               disk |-> [[[d EXCEPT ![orig] = Absent] EXCEPT ![new] = d[tmp]]
                             EXCEPT ![tmp] = IF new = tmp THEN d[tmp] ELSE Absent],
               replace |-> "ok"]
    ELSE [status |-> SUCCESS, disk |-> d, replace |-> "none"]

\* clean_up: replace_file after the verification step
ReplaceAfterVerify(delete_original, st) ==
    delete_original /\ st # LOWQUALITY /\ st # FAILED

\* variant: the replace flag is not consulted
ShouldReplace_any(replace_file, status) == status = SUCCESS

\* clean_up: the last test, "if replace_file and status == SUCCESS"
ShouldReplace(replace_file, status) == replace_file /\ status = SUCCESS

\* variant: the original is replaced before the size check is consulted
clean_up_tail_early(d, cfg, orig, tmp, new, st, fs) ==
    LET st2 == IF cfg.check_size /\ st = SUCCESS THEN size_check_status(d, orig, tmp) ELSE st
        r == replace_original(d, orig, tmp, new, fs)
    IN  IF ReplaceAfterVerify(cfg.delete_original, st) /\ st = SUCCESS
        THEN [status |-> IF st2 = SUCCESS THEN r.status ELSE st2, disk |-> r.disk,
              replace |-> r.replace]
        ELSE [status |-> st2, disk |-> d, replace |-> "none"]

\* variant: the size check is made whatever the verification said
clean_up_tail_sizefirst(d, cfg, orig, tmp, new, st, fs) ==
    LET sized == IF cfg.check_size THEN size_check_status(d, orig, tmp) ELSE SUCCESS
        st2 == IF sized = LARGESIZE THEN LARGESIZE ELSE st
        replace_file == ReplaceAfterVerify(cfg.delete_original, st) /\ st2 # LARGESIZE
    IN  IF ShouldReplace(replace_file, st2)
        THEN replace_original(d, orig, tmp, new, fs)
        ELSE [status |-> st2, disk |-> d, replace |-> "none"]

\* variant: a job that fails in clean_up deletes its temporary output
clean_up_tail_purge(d, cfg, orig, tmp, new, st, fs) ==
    LET st2 == IF cfg.check_size /\ st = SUCCESS THEN size_check_status(d, orig, tmp) ELSE st
        replace_file == ReplaceAfterVerify(cfg.delete_original, st) /\ st2 # LARGESIZE
        r == IF ShouldReplace(replace_file, st2)
             THEN replace_original(d, orig, tmp, new, fs)
             ELSE [status |-> st2, disk |-> d, replace |-> "none"]
    IN  IF r.status = FAILED THEN [r EXCEPT !.disk = delete_encoded(r.disk, tmp, TRUE)] ELSE r

\* CRFEncoder.clean_up after the verification step: st is the status so far
\* (SUCCESS when verify is off).
clean_up_tail(d, cfg, orig, tmp, new, st, fs) ==
    LET st2 == IF cfg.check_size /\ st = SUCCESS THEN size_check_status(d, orig, tmp) ELSE st
        replace_file == ReplaceAfterVerify(cfg.delete_original, st) /\ st2 # LARGESIZE
    IN  IF ShouldReplace(replace_file, st2)
        THEN replace_original(d, orig, tmp, new, fs)
        ELSE [status |-> st2, disk |-> d, replace |-> "none"]

\* a min_size argument as given: a number (unit "") or a text such as "1b", "1B"
SizeText(value, unit) == [value |-> value, unit |-> unit]

\* the unit table of parse_size, the text lower-cased first
size_map(unit) ==
    CASE unit \in {"kb", "KB"} -> 1024
      [] unit \in {"mb", "MB"} -> 1048576
      [] unit \in {"gb", "GB"} -> 1073741824
      [] unit \in {"b", "B"} -> 1
      [] OTHER -> 1

\* BatchEncoder.parse_size: the threshold in bytes
parse_size(size) ==
    IF size.unit = "" THEN size.value ELSE size.value * size_map(size.unit)

\* ------------------------------------------------------------------ state
VARIABLES
    disk,                \* path -> Content or Absent
    is_mp4,              \* candidate -> whether its name is <stem>.mp4
    job,                 \* the encoder object of the file being processed
    pc,                  \* the batch process: "off", "loop", "job", "finished"
    video_queue,         \* BatchEncoder.video_queue, a set of heap entries
    success_encodings,   \* BatchEncoder.success_encodings
    failed_encodings,    \* BatchEncoder.failed_encodings
    skipped_videos,      \* BatchEncoder.skipped_videos: candidate -> reason or NoReason
    total_original_size, \* BatchEncoder.total_original_size
    total_encoded_size,  \* BatchEncoder.total_encoded_size
    params,              \* this run's min_size and min_resolution
    opts,                \* this run's verify, force and codec
    state_file,          \* the pickled state, NoState before the first save
    runs,                \* process starts so far
    hist                 \* what the runs did to each candidate (for the properties)

vars == <<disk, is_mp4, job, pc, video_queue, success_encodings, failed_encodings,
          skipped_videos, total_original_size, total_encoded_size, params, opts,
          state_file, runs, hist>>

schedVars == <<video_queue, success_encodings, failed_encodings, skipped_videos,
               total_original_size, total_encoded_size, params, opts, state_file, runs>>

\* ------------------------------------------------------------------ the job object
\* the encoder's configuration (CRFEncoder.__init__)
Config(delete_original, verify, delete_threshold, check_size, codec, ignore_codec) ==
    [delete_original |-> delete_original, verify |-> verify,
     delete_threshold |-> delete_threshold, check_size |-> check_size,
     codec |-> codec, ignore_codec |-> ignore_codec]

NoJob == [phase |-> "idle"]

\* CRFEncoder.__init__: the encoder object for candidate f, whose MediaFile is media
NewJob(d, f, mp4, media, cfg) ==
    LET tmp == generate_tmp_output_path(d, f, cfg.codec)
    IN  [phase |-> "ready", f |-> f, cfg |-> cfg, media |-> media,
         output_tmp_file |-> tmp,
         new_file_path |-> generate_new_file_path(d, f, mp4, cfg.delete_original, tmp),
         original_size |-> media.size, pre |-> d[OrigPath(f)], status |-> FAILED,
         \* what happened, recorded for the properties
         launch |-> "none", returncode |-> None, encoded_size |-> None,
         probe |-> "none", vmaf_score |-> None, wrote |-> FALSE, refused |-> FALSE,
         child |-> "none", replace |-> "none"]

\* CustomEncoder.get_duration
get_duration(media) == media.v[1].duration

\* encode_wrapper returns st with the file system as d
JobDone(j, st, d) ==
    /\ job' = [j EXCEPT !.phase = "done", !.status = st]
    /\ disk' = d

\* encode_wrapper up to the start of the transcoder: _encode builds the command and
\* returns SKIPPED, or raises before the subprocess exists (the duration is None
\* where it is formatted, or ffmpeg cannot be started), or starts the subprocess.
JobEncode ==
    /\ job.phase = "ready"
    /\ LET cmd == prepare_cmd(job.cfg.codec, job.media.v, job.media.a, job.cfg.ignore_codec)
       IN  IF cmd = NoCmd
           THEN JobDone(job, SKIPPED, disk)
           ELSE IF get_duration(job.media) = None
           THEN JobDone(job, FAILED, delete_encoded(disk, job.output_tmp_file, TRUE))
           ELSE \E started \in BOOLEAN :
                    IF started
                    THEN /\ job' = [job EXCEPT !.phase = "running", !.launch = "started",
                                              !.child = "running"]
                         /\ disk' = disk
                    ELSE JobDone([job EXCEPT !.launch = "failed"], FAILED,
                                 delete_encoded(disk, job.output_tmp_file, TRUE))
    /\ UNCHANGED <<is_mp4, pc, schedVars, hist>>

\* the encoded output ffmpeg writes for job j
EncodedOutput(j, d, size) ==
    Content(size, TranscodedVideo(j.cfg.codec, j.media.v, j.cfg.ignore_codec),
            TranscodedAudio(j.media.a), d[OrigPath(j.f)].gen + 1)

\* The transcoder exits.  Code 0: the output is at the temporary path and
\* encode_wrapper enters clean_up with SUCCESS (up to the start of the VMAF run when
\* verify is on).  Another code: CalledProcessError, clean_up with FAILED.
TranscoderExit ==
    /\ job.phase = "running"
    /\ LET orig == OrigPath(job.f)
           tmp == job.output_tmp_file
       IN  \/ /\ disk[orig] # Absent
              /\ \E size \in Sizes :
                   LET d1 == [disk EXCEPT ![tmp] = EncodedOutput(job, disk, size)]
                       j1 == [job EXCEPT !.returncode = 0, !.wrote = TRUE,
                                         !.encoded_size = size, !.child = "exited"]
                   IN  IF job.cfg.verify
                       THEN /\ job' = [j1 EXCEPT !.phase = "verifying"]
                            /\ disk' = d1
                       ELSE \E fs \in {"ok", "unlink_fail", "rename_fail"} :
                              LET r == clean_up_tail(d1, job.cfg, orig, tmp,
                                                     job.new_file_path, SUCCESS, fs)
                              IN  JobDone([j1 EXCEPT !.replace = r.replace],
                                          r.status, r.disk)
           \/ \E wrote \in BOOLEAN, unlink_ok \in BOOLEAN :
                LET d1 == IF wrote THEN [disk EXCEPT ![tmp] = Partial] ELSE disk
                IN  JobDone([job EXCEPT !.returncode = 1, !.wrote = wrote,
                                        !.refused = wrote /\ ~unlink_ok,
                                        !.child = "exited"],
                            FAILED, delete_encoded(d1, tmp, unlink_ok))
    /\ UNCHANGED <<is_mp4, pc, schedVars, hist>>

\* KeyboardInterrupt while the transcoder runs: the handler of encode_wrapper
\* deletes the temporary output and exits the process.  The handler does nothing
\* to the subprocess: the child has stopped only if the signal reached it too
\* (signalled), and while it runs it keeps the file open, so the deletion can be
\* refused.
JobInterrupt ==
    /\ job.phase = "running"
    /\ \E wrote \in BOOLEAN, unlink_ok \in BOOLEAN, signalled \in BOOLEAN :
         LET d1 == IF wrote THEN [disk EXCEPT ![job.output_tmp_file] = Partial] ELSE disk
         IN  /\ disk' = delete_encoded(d1, job.output_tmp_file, unlink_ok)
             /\ job' = [job EXCEPT !.phase = "exit", !.wrote = wrote,
                                   !.refused = wrote /\ ~unlink_ok,
                                   !.child = IF signalled THEN "exited" ELSE "running"]
    /\ pc' = "off"
    /\ UNCHANGED <<is_mp4, schedVars, hist>>

\* what the probe of the output and the VMAF run can answer
Scores == {0, 85, 90, 95}
VerifyOutcomes ==
    {[probe |-> "corrupt", vmaf_score |-> None], [probe |-> "ok", vmaf_score |-> None]}
    \cup {[probe |-> "ok", vmaf_score |-> s] : s \in Scores}

\* The verification ends (_verify) and clean_up runs to its end.
VerifyDone ==
    /\ job.phase = "verifying"
    /\ \E o \in VerifyOutcomes, fs \in {"ok", "unlink_fail", "rename_fail"} :
         LET st == verify_status(job.cfg.verify, o.probe, o.vmaf_score,
                                 job.cfg.delete_threshold)
             r == clean_up_tail(disk, job.cfg, OrigPath(job.f), job.output_tmp_file,
                                job.new_file_path, st, fs)
         IN  JobDone([job EXCEPT !.probe = o.probe, !.vmaf_score = o.vmaf_score,
                                 !.replace = r.replace],
                     r.status, r.disk)
    /\ UNCHANGED <<is_mp4, pc, schedVars, hist>>

\* KeyboardInterrupt during the VMAF run: MediaFile.compare exits the process.
VerifyInterrupt ==
    /\ job.phase = "verifying"
    /\ job' = [job EXCEPT !.phase = "exit"]
    /\ pc' = "off"
    /\ UNCHANGED <<disk, is_mp4, schedVars, hist>>

\* ------------------------------------------------------------------ one job alone
\* the stream descriptions the jobs are tried on
h264_1080 == VStream("h264", "avc1", 1920, 1080, FALSE, 10)
h264_360 == VStream("h264", "avc1", 480, 360, FALSE, 10)
h264_nodim == VStream("h264", "avc1", None, None, FALSE, 10)
h264_nodur == VStream("h264", "avc1", 1920, 1080, FALSE, None)
h264_meta == VStream("h264", "avc1", 1920, 1080, TRUE, 10)
hevc_hvc1 == VStream("hevc", "hvc1", 1920, 1080, FALSE, 10)
hevc_hev1 == VStream("hevc", "hev1", 1920, 1080, FALSE, 10)
av1_av01 == VStream("av1", "av01", 1920, 1080, FALSE, 10)
aac == AStream("aac", 128)
mp3 == AStream("mp3", 128)
mp3_nobr == AStream("mp3", None)

JobVideoLists == {<<h264_1080>>, <<hevc_hvc1>>, <<hevc_hev1>>, <<av1_av01>>, <<h264_nodur>>,
                  <<h264_meta>>, <<hevc_hvc1, h264_1080>>, <<av1_av01, hevc_hvc1>>}
JobAudioLists == {<<>>, <<aac>>, <<mp3>>, <<aac, mp3_nobr>>}
JobIgnoreSets == {{}, EFFICIENT_CODEC, {"hevc"}, {"av1"}}
Thresholds == {0, 90}
Codecs == {"hevc", "av1"}

\* an entry of the skipped map: the kind of log text and the threshold the text
\* prints (min_size as it was given, or min_resolution)
SkipLog(kind, min_size, min_resolution) ==
    [kind |-> kind, min_size |-> min_size, min_resolution |-> min_resolution]
NoSize == SizeText(None, "-")
NoReason == SkipLog("-", NoSize, "-")
NoState == [directory |-> "-"]
NoHist == [cand |-> {}, filtered |-> {}, recorded |-> [f \in Files |-> 0], resumed |-> FALSE,
           replaced_original |-> 0, replaced_encoded |-> 0, refused |-> FALSE,
           unsaved |-> FALSE]

JobConfigs ==
    {Config(del, ver, thr, chk, codec, ign) :
        del \in BOOLEAN, ver \in BOOLEAN, thr \in Thresholds, chk \in BOOLEAN,
        codec \in Codecs, ign \in JobIgnoreSets}

\* One encoder object, of any configuration, on candidate 1.
InitJob ==
    \E size \in Sizes, v \in JobVideoLists, a \in JobAudioLists, mp4 \in BOOLEAN,
       cfg \in JobConfigs :
        /\ disk = [p \in AllPaths |-> IF p = OrigPath(1) THEN Content(size, v, a, 0)
                                      ELSE Absent]
        /\ is_mp4 = [f \in Files |-> mp4 /\ f = 1]
        /\ job = NewJob(disk, 1, mp4, disk[OrigPath(1)], cfg)
        /\ pc = "job"
        /\ video_queue = {}
        /\ success_encodings = {}
        /\ failed_encodings = {}
        /\ skipped_videos = [f \in Files |-> NoReason]
        /\ total_original_size = 0
        /\ total_encoded_size = 0
        /\ params = [min_size |-> SizeText(1, "b"), min_resolution |-> "none"]
        /\ opts = [verify |-> cfg.verify, force |-> cfg.ignore_codec = {}, codec |-> cfg.codec]
        /\ state_file = NoState
        /\ runs = 0
        /\ hist = NoHist

NextJob == JobEncode \/ TranscoderExit \/ JobInterrupt \/ VerifyDone \/ VerifyInterrupt

SpecJob == InitJob /\ [][NextJob]_vars

\* ------------------------------------------------------------------ the scheduler
Directory == "dir"

\* a heap entry (-file_size, path, media_file): media is the MediaFile probed at scan time
Entry(f, media) == [f |-> f, size |-> media.size, media |-> media]

QueueFiles(q) == {e.f : e \in q}

\* variant: the smallest file is popped first
HeapTop_min(q) ==
    CHOOSE e \in q : \A o \in q : e.size < o.size \/ (e.size = o.size /\ e.f <= o.f)

\* heapq.heappop: the smallest (-size, path), that is the largest size, then the first path
HeapTop(q) ==
    CHOOSE e \in q : \A o \in q : e.size > o.size \/ (e.size = o.size /\ e.f <= o.f)

\* Python truthiness of an optional number
Truthy(x) == x # None /\ x # 0

\* variant: one video stream below the resolution threshold is enough
skip_resolution_any(v, min_resolution) ==
    \E i \in 1..Len(v) :
        /\ Truthy(v[i].width)
        /\ Truthy(v[i].height)
        /\ v[i].width * v[i].height < RESOLUTION(min_resolution)

\* prepare_video_queue: every video stream is below the resolution threshold
skip_resolution(v, min_resolution) ==
    \A i \in 1..Len(v) :
        /\ Truthy(v[i].width)
        /\ Truthy(v[i].height)
        /\ v[i].width * v[i].height < RESOLUTION(min_resolution)

\* prepare_video_queue: what the scan does with candidate f
ScanVerdict(d, f, succ, fail, p) ==
    LET c == d[OrigPath(f)]
    IN  IF c = Absent THEN "absent"
        ELSE IF f \in succ \/ f \in fail THEN "processed"
        ELSE IF c.size < parse_size(p.min_size) THEN "size"
        ELSE IF c.v = <<>> THEN "invalid"
        ELSE IF p.min_resolution # "none" /\ skip_resolution(c.v, p.min_resolution)
             THEN "resolution"
        ELSE "queued"

\* variant: a file filtered out by the scan is not entered in the skipped map
prepare_video_queue_silent(d, succ, fail, skipped, p) ==
    [video_queue |-> {Entry(f, d[OrigPath(f)]) :
                        f \in {g \in Files : ScanVerdict(d, g, succ, fail, p) = "queued"}},
     skipped_videos |-> skipped]

\* variant: a file filtered out by its size is logged as skipped and queued too
prepare_video_queue_both(d, succ, fail, skipped, p) ==
    [video_queue |-> {Entry(f, d[OrigPath(f)]) :
                        f \in {g \in Files :
                                 ScanVerdict(d, g, succ, fail, p) \in {"queued", "size"}}},
     skipped_videos |-> [f \in Files |->
                           IF ScanVerdict(d, f, succ, fail, p) = "size"
                           THEN SkipLog("size", p.min_size, "-")
                           ELSE IF ScanVerdict(d, f, succ, fail, p) = "resolution"
                           THEN SkipLog("resolution", NoSize, p.min_resolution)
                           ELSE skipped[f]]]

\* prepare_video_queue: the new queue and the skipped map
prepare_video_queue(d, succ, fail, skipped, p) ==
    [video_queue |-> {Entry(f, d[OrigPath(f)]) :
                        f \in {g \in Files : ScanVerdict(d, g, succ, fail, p) = "queued"}},
     skipped_videos |-> [f \in Files |->
                           IF ScanVerdict(d, f, succ, fail, p) = "size"
                           THEN SkipLog("size", p.min_size, "-")
                           ELSE IF ScanVerdict(d, f, succ, fail, p) = "resolution"
                           THEN SkipLog("resolution", NoSize, p.min_resolution)
                           ELSE skipped[f]]]

\* variant: the queue is left out of the saved state
SavedState_noqueue(succ, fail, skipped, q, p, tot_o, tot_e) ==
    [directory |-> Directory, success_encodings |-> succ, failed_encodings |-> fail,
     skipped_videos |-> skipped, video_queue |-> {}, min_size |-> p.min_size,
     min_resolution |-> p.min_resolution, total_original_size |-> tot_o,
     total_encoded_size |-> tot_e]

\* variant: the byte counters are saved as zero
SavedState_nototals(succ, fail, skipped, q, p, tot_o, tot_e) ==
    [directory |-> Directory, success_encodings |-> succ, failed_encodings |-> fail,
     skipped_videos |-> skipped, video_queue |-> q, min_size |-> p.min_size,
     min_resolution |-> p.min_resolution, total_original_size |-> 0,
     total_encoded_size |-> 0]

\* save_state: the pickled dictionary
SavedState(succ, fail, skipped, q, p, tot_o, tot_e) ==
    [directory |-> Directory, success_encodings |-> succ, failed_encodings |-> fail,
     skipped_videos |-> skipped, video_queue |-> q, min_size |-> p.min_size,
     min_resolution |-> p.min_resolution, total_original_size |-> tot_o,
     total_encoded_size |-> tot_e]

\* variant: the minimum resolution is not compared
load_state_nores(st, p) ==
    /\ st # NoState
    /\ st.directory = Directory
    /\ st.video_queue # {}
    /\ st.min_size = p.min_size

\* DEFAULT_MIN_SIZE ("100MB"), on the scale of the model's sizes
DEFAULT_MIN_SIZE == SizeText(1, "b")

\* dict.get(key, default) on the unpickled state
Get(st, key, default) == IF key \in DOMAIN st THEN st[key] ELSE default

\* variant: a state without a minimum size matches any minimum size
load_state_anysize(st, p) ==
    /\ st # NoState
    /\ Get(st, "directory", "-") = Directory
    /\ Get(st, "video_queue", {}) # {}
    /\ "min_size" \in DOMAIN st => st.min_size = p.min_size
    /\ Get(st, "min_resolution", "none") = p.min_resolution

\* load_state: whether the previous session is resumed.  A key the state lacks
\* takes the default of its state.get
load_state(st, p) ==
    /\ st # NoState
    /\ Get(st, "directory", "-") = Directory
    /\ Get(st, "video_queue", {}) # {}
    /\ Get(st, "min_size", DEFAULT_MIN_SIZE) = p.min_size
    /\ Get(st, "min_resolution", "none") = p.min_resolution

\* the options and filter parameters a run can be started with
RunOptions ==
    {[verify |-> FALSE, force |-> FALSE, codec |-> "hevc"],
     [verify |-> TRUE, force |-> TRUE, codec |-> "av1"]}
RunParams ==
    {[min_size |-> SizeText(1, "b"), min_resolution |-> "none"],
     [min_size |-> SizeText(1, "B"), min_resolution |-> "none"],
     [min_size |-> SizeText(MaxSize, ""), min_resolution |-> "none"],
     [min_size |-> SizeText(1, "b"), min_resolution |-> "720p"]}

NoSkipped == [f \in Files |-> NoReason]

\* variant: the force option of the batch also forces a fresh scan
StartupWith_force(P, O) ==
    /\ pc \in {"off", "finished"}
    /\ runs < MaxRuns
    /\ \E p \in P, o \in O, force_reset \in BOOLEAN :
         LET resume == ~force_reset /\ ~o.force /\ load_state(state_file, p)
             scan == prepare_video_queue(disk, {}, {}, NoSkipped, p)
         IN  /\ params' = p
             /\ opts' = o
             /\ IF resume
                THEN /\ video_queue' = Get(state_file, "video_queue", {})
                     /\ success_encodings' = Get(state_file, "success_encodings", {})
                     /\ failed_encodings' = Get(state_file, "failed_encodings", {})
                     /\ skipped_videos' = Get(state_file, "skipped_videos", NoSkipped)
                     /\ total_original_size' = Get(state_file, "total_original_size", 0)
                     /\ total_encoded_size' = Get(state_file, "total_encoded_size", 0)
                     /\ hist' = [hist EXCEPT !.resumed = TRUE]
                ELSE /\ video_queue' = scan.video_queue
                     /\ success_encodings' = {}
                     /\ failed_encodings' = {}
                     /\ skipped_videos' = scan.skipped_videos
                     /\ total_original_size' = 0
                     /\ total_encoded_size' = 0
                     /\ hist' = [cand |-> QueueFiles(scan.video_queue),
                                 filtered |-> {f \in Files :
                                     ScanVerdict(disk, f, {}, {}, p) \in {"size", "resolution"}},
                                 recorded |-> [f \in Files |-> 0], resumed |-> FALSE,
                                 replaced_original |-> 0, replaced_encoded |-> 0, refused |-> FALSE,
                                 unsaved |-> FALSE]
    /\ state_file' = SavedState(success_encodings', failed_encodings', skipped_videos',
                                video_queue', params', total_original_size',
                                total_encoded_size')
    /\ runs' = runs + 1
    /\ pc' = "loop"
    /\ job' = NoJob
    /\ UNCHANGED <<disk, is_mp4>>

\* BatchEncoder.__init__ with parameters from P and options from O: resume from the
\* state file, or reset and scan; save.
StartupWith(P, O) ==
    /\ pc \in {"off", "finished"}
    /\ runs < MaxRuns
    /\ \E p \in P, o \in O, force_reset \in BOOLEAN :
         LET resume == ~force_reset /\ load_state(state_file, p)
             scan == prepare_video_queue(disk, {}, {}, NoSkipped, p)
         IN  /\ params' = p
             /\ opts' = o
             /\ IF resume
                THEN /\ video_queue' = Get(state_file, "video_queue", {})
                     /\ success_encodings' = Get(state_file, "success_encodings", {})
                     /\ failed_encodings' = Get(state_file, "failed_encodings", {})
                     /\ skipped_videos' = Get(state_file, "skipped_videos", NoSkipped)
                     /\ total_original_size' = Get(state_file, "total_original_size", 0)
                     /\ total_encoded_size' = Get(state_file, "total_encoded_size", 0)
                     /\ hist' = [hist EXCEPT !.resumed = TRUE]
                ELSE /\ video_queue' = scan.video_queue
                     /\ success_encodings' = {}
                     /\ failed_encodings' = {}
                     /\ skipped_videos' = scan.skipped_videos
                     /\ total_original_size' = 0
                     /\ total_encoded_size' = 0
                     /\ hist' = [cand |-> QueueFiles(scan.video_queue),
                                 filtered |-> {f \in Files :
                                     ScanVerdict(disk, f, {}, {}, p) \in {"size", "resolution"}},
                                 recorded |-> [f \in Files |-> 0], resumed |-> FALSE,
                                 replaced_original |-> 0, replaced_encoded |-> 0, refused |-> FALSE,
                                 unsaved |-> FALSE]
    /\ state_file' = SavedState(success_encodings', failed_encodings', skipped_videos',
                                video_queue', params', total_original_size',
                                total_encoded_size')
    /\ runs' = runs + 1
    /\ pc' = "loop"
    /\ job' = NoJob
    /\ UNCHANGED <<disk, is_mp4>>

\* a start of the batch process
Startup == StartupWith(RunParams, RunOptions)

\* variant: the jobs of the batch are built with the threshold 90
BatchConfig_threshold(o) ==
    Config(TRUE, o.verify, 90, TRUE, o.codec, IF o.force THEN {} ELSE EFFICIENT_CODEC)

\* encode_videos: the configuration every job of the batch is built with
BatchConfig(o) ==
    Config(TRUE, o.verify, 0, TRUE, o.codec, IF o.force THEN {} ELSE EFFICIENT_CODEC)

\* variant: the entry read from the head of the queue stays in it
Dequeue_keep ==
    /\ pc = "loop"
    /\ video_queue # {}
    /\ job' = NewJob(disk, HeapTop(video_queue).f, is_mp4[HeapTop(video_queue).f],
                     HeapTop(video_queue).media, BatchConfig(opts))
    /\ pc' = "job"
    /\ UNCHANGED <<disk, is_mp4, schedVars, hist>>

\* encode_videos: pop the next entry and build its encoder
Dequeue ==
    /\ pc = "loop"
    /\ video_queue # {}
    /\ LET e == HeapTop(video_queue)
       IN  /\ video_queue' = video_queue \ {e}
           /\ job' = NewJob(disk, e.f, is_mp4[e.f], e.media, BatchConfig(opts))
    /\ pc' = "job"
    /\ UNCHANGED <<disk, is_mp4, success_encodings, failed_encodings, skipped_videos,
                   total_original_size, total_encoded_size, params, opts, state_file,
                   runs, hist>>

\* save_state: what the state file holds afterwards.  write is "ok", or the failure
\* the handler of save_state logs: "open_fail" (the file cannot be opened, it keeps
\* its content) or "truncated" (the dump fails after the file was opened for
\* writing; what is left does not unpickle, and load_state treats it as no state)
save_state(state, old, write) ==
    IF write = "ok" THEN state ELSE IF write = "open_fail" THEN old ELSE NoState

\* encode_videos: the bookkeeping of one returned status, then save_state, whose
\* write ends as one of writes
RecordWith(writes) ==
    /\ pc = "job"
    /\ job.phase = "done"
    /\ LET f == job.f
           orig == OrigPath(f)
           tmp == job.output_tmp_file
       IN  IF job.status = SUCCESS /\ disk[job.new_file_path] = Absent
           THEN \* os.path.getsize(new_file_path) raises: the run ends without saving
                /\ pc' = "off"
                /\ UNCHANGED <<disk, success_encodings, failed_encodings, skipped_videos,
                               total_original_size, total_encoded_size, state_file, hist>>
           ELSE /\ success_encodings' =
                      IF job.status = SUCCESS THEN success_encodings \cup {f}
                      ELSE success_encodings
                /\ failed_encodings' =
                      IF job.status = FAILED THEN failed_encodings \cup {f}
                      ELSE failed_encodings
                /\ skipped_videos' =
                      IF job.status = SKIPPED THEN [skipped_videos EXCEPT
                                                    ![f] = SkipLog("skipped", NoSize, "-")]
                      ELSE IF job.status = LARGESIZE
                           THEN [skipped_videos EXCEPT
                                     ![f] = SkipLog("largesize", NoSize, "-")]
                      ELSE skipped_videos
                /\ total_encoded_size' =
                      IF job.status = SUCCESS /\ disk[orig] # Absent
                      THEN total_encoded_size + disk[orig].size ELSE total_encoded_size
                /\ total_original_size' =
                      IF job.status = SUCCESS /\ disk[orig] # Absent
                      THEN total_original_size + job.original_size
                      ELSE total_original_size
                /\ \E unlink_ok \in BOOLEAN, write \in writes :
                      LET discards == job.status \in {LOWQUALITY, LARGESIZE}
                                          /\ disk[tmp] # Absent
                      IN  /\ disk' = IF discards THEN delete_encoded(disk, tmp, unlink_ok)
                                     ELSE disk
                          /\ hist' = [hist EXCEPT
                                \* whether this _delete_encoded was refused by the file system
                                !.refused = discards /\ ~unlink_ok,
                                \* whether this save_state failed to write
                                !.unsaved = write # "ok",
                                !.recorded[f] = @ + 1,
                                \* the sizes of the files recorded SUCCESS, the original replaced
                                !.replaced_original =
                                    IF job.status = SUCCESS THEN @ + job.original_size ELSE @,
                                !.replaced_encoded =
                                    IF job.status = SUCCESS THEN @ + disk[job.new_file_path].size
                                    ELSE @]
                          /\ state_file' =
                                save_state(SavedState(success_encodings', failed_encodings',
                                                      skipped_videos', video_queue, params,
                                                      total_original_size',
                                                      total_encoded_size'),
                                           state_file, write)
                /\ pc' = "loop"
    /\ job' = NoJob
    /\ UNCHANGED <<is_mp4, video_queue, params, opts, runs>>

\* one turn of the scheduler's bookkeeping, the state file written
Record == RecordWith({"ok"})

\* encode_videos: the queue is empty, the final report is logged
Finish ==
    /\ pc = "loop"
    /\ video_queue = {}
    /\ pc' = "finished"
    /\ UNCHANGED <<disk, is_mp4, job, schedVars, hist>>

\* The process is stopped outside the transcoder and VMAF runs: between two jobs,
\* or after encode_wrapper returned and before the state is saved.
Kill ==
    /\ \/ pc = "loop"
       \/ pc = "job" /\ job.phase \in {"ready", "done"}
    /\ pc' = "off"
    /\ job' = NoJob
    /\ UNCHANGED <<disk, is_mp4, schedVars, hist>>

\* the files of the directory the batch runs are tried on
BatchFiles ==
    {[media |-> Content(MaxSize, <<h264_1080>>, <<mp3>>, 0), mp4 |-> FALSE],
     [media |-> Content(1, <<h264_1080>>, <<aac>>, 0), mp4 |-> TRUE],
     [media |-> Content(MaxSize, <<hevc_hvc1>>, <<aac>>, 0), mp4 |-> TRUE],
     [media |-> Content(1, <<h264_360>>, <<aac>>, 0), mp4 |-> FALSE]}

Init ==
    /\ \E dir \in [Files -> BatchFiles] :
         /\ disk = [p \in AllPaths |-> IF p[2] = "orig" THEN dir[p[1]].media ELSE Absent]
         /\ is_mp4 = [f \in Files |-> dir[f].mp4]
    /\ job = NoJob
    /\ pc = "off"
    /\ video_queue = {}
    /\ success_encodings = {}
    /\ failed_encodings = {}
    /\ skipped_videos = NoSkipped
    /\ total_original_size = 0
    /\ total_encoded_size = 0
    /\ params = [min_size |-> SizeText(1, "b"), min_resolution |-> "none"]
    /\ opts = [verify |-> FALSE, force |-> FALSE, codec |-> "hevc"]
    /\ state_file = NoState
    /\ runs = 0
    /\ hist = NoHist

Next ==
    \/ Startup
    \/ Dequeue
    \/ JobEncode
    \/ TranscoderExit
    \/ JobInterrupt
    \/ VerifyDone
    \/ VerifyInterrupt
    \/ Record
    \/ Finish
    \/ Kill

Spec == Init /\ [][Next]_vars

\* ------------------------------------------------------------------ failing saves
\* one turn of the scheduler's bookkeeping, the write of the state file failing or not
RecordFault == RecordWith({"ok", "open_fail", "truncated"})

\* a start of the batch process with the default filters, verification off
FaultStartup ==
    StartupWith({[min_size |-> SizeText(1, "b"), min_resolution |-> "none"]},
                {[verify |-> FALSE, force |-> FALSE, codec |-> "hevc"]})

NextFault ==
    \/ FaultStartup
    \/ Dequeue
    \/ JobEncode
    \/ TranscoderExit
    \/ JobInterrupt
    \/ RecordFault
    \/ Finish
    \/ Kill

\* the batch scheduler with writes of the state file that can fail in the loop
SpecFault == Init /\ [][NextFault]_vars

\* ------------------------------------------------------------------ the scan alone
h264_zerodim == VStream("h264", "avc1", 0, 0, FALSE, 10)

\* the files the scan is tried on: sizes on both sides of the thresholds, one or two
\* video streams of known, unknown (None) or zero dimensions, no valid video stream
ScanFiles ==
    {Content(1, <<h264_1080>>, <<aac>>, 0),
     Content(MaxSize, <<h264_1080>>, <<aac>>, 0),
     Content(MaxSize, <<h264_360>>, <<aac>>, 0),
     Content(MaxSize, <<h264_360, h264_1080>>, <<aac>>, 0),
     Content(MaxSize, <<h264_360, h264_nodim>>, <<aac>>, 0),
     Content(MaxSize, <<h264_360, h264_360>>, <<aac>>, 0),
     Content(MaxSize, <<h264_zerodim>>, <<aac>>, 0),
     Content(MaxSize, <<>>, <<aac>>, 0)}

\* the thresholds the scan is tried with
ScanParams ==
    {[min_size |-> SizeText(1, "b"), min_resolution |-> "none"],
     [min_size |-> SizeText(MaxSize, "B"), min_resolution |-> "none"],
     [min_size |-> SizeText(MaxSize, ""), min_resolution |-> "720p"],
     [min_size |-> SizeText(1, "kb"), min_resolution |-> "none"],
     [min_size |-> SizeText(1, "tb"), min_resolution |-> "none"],
     [min_size |-> SizeText(1, "b"), min_resolution |-> "720p"],
     [min_size |-> SizeText(1, "b"), min_resolution |-> "360p"],
     [min_size |-> SizeText(1, "b"), min_resolution |-> "4k"]}

ScanOptions == {[verify |-> FALSE, force |-> FALSE, codec |-> "hevc"]}

\* a start of the batch process on one of the scan's directories
ScanStartup == StartupWith(ScanParams, ScanOptions)

InitScan ==
    /\ \E dir \in [Files -> ScanFiles] :
         disk = [p \in AllPaths |-> IF p[2] = "orig" THEN dir[p[1]] ELSE Absent]
    /\ is_mp4 = [f \in Files |-> FALSE]
    /\ job = NoJob
    /\ pc = "off"
    /\ video_queue = {}
    /\ success_encodings = {}
    /\ failed_encodings = {}
    /\ skipped_videos = NoSkipped
    /\ total_original_size = 0
    /\ total_encoded_size = 0
    /\ params = [min_size |-> SizeText(1, "b"), min_resolution |-> "none"]
    /\ opts = [verify |-> FALSE, force |-> FALSE, codec |-> "hevc"]
    /\ state_file = NoState
    /\ runs = 0
    /\ hist = NoHist

\* the process is started, stopped before its first job, and started again
NextScan == ScanStartup \/ Kill

SpecScan == InitScan /\ [][NextScan]_vars

\* ------------------------------------------------------------------ properties
\* the job has started and its fields are defined
HasJob == job.phase # "idle"
JobOrig == OrigPath(job.f)
OriginalIntact == disk[JobOrig] = job.pre /\ job.pre # Absent
Terminal == HasJob /\ job.phase = "done"

\* C1: the original file is deleted only if delete-original is enabled, the
\* transcoder exited with code 0, the verification (when enabled) produced a score
\* not below the threshold, and the size check (when enabled) found the encoded
\* output strictly smaller than the original.
C1_DeleteOnlyWhenAllowed ==
    HasJob /\ disk[JobOrig] # job.pre =>
        /\ job.cfg.delete_original
        /\ job.returncode = 0
        /\ job.cfg.verify =>
              job.vmaf_score # None /\ job.vmaf_score >= job.cfg.delete_threshold
        /\ job.cfg.check_size => job.encoded_size < job.pre.size

\* a job with verification and size check on has replaced its original
C1_Witness ==
    /\ Terminal
    /\ job.status = SUCCESS
    /\ disk[JobOrig] # job.pre
    /\ job.cfg.verify
    /\ job.cfg.delete_threshold = 90
    /\ job.cfg.check_size

\* C2: a job whose terminal status is LOWQUALITY, LARGESIZE or SKIPPED leaves the
\* original file at its path, unchanged.
C2_OriginalPreserved ==
    Terminal /\ job.status \in {LOWQUALITY, LARGESIZE, SKIPPED} => OriginalIntact

\* a job that was allowed to delete the original ended LARGESIZE
C2_Witness ==
    /\ Terminal
    /\ job.status = LARGESIZE
    /\ job.cfg.delete_original
    /\ OriginalIntact

\* every video stream is a plain copy and every audio stream is copied
AllPlainCopy(j) ==
    /\ \A i \in 1..Len(j.media.v) :
          prepare_video_args(j.cfg.codec, j.media.v, j.cfg.ignore_codec)[i]
              = map_prefix_v \o <<"copy">>
    /\ \A i \in 1..Len(j.media.a) :
          prepare_audio_args(j.media.a)[i] = map_prefix_a \o <<"copy">>

\* no file was created, modified or deleted since the job was built
NoFileTouched ==
    \A p \in AllPaths : disk[p] = IF p = JobOrig THEN job.pre ELSE Absent

\* C3: a job ends SKIPPED exactly when every video stream resolves to a plain copy
\* (no encode, no retag) and every audio stream to copy; a SKIPPED job has not
\* invoked the transcoder and has created, modified or deleted no file.
C3_SkippedIffAllCopy ==
    Terminal =>
        /\ job.status = SKIPPED <=> AllPlainCopy(job)
        /\ job.status = SKIPPED =>
              job.launch = "none" /\ job.returncode = None /\ NoFileTouched

\* the scenario of the specification: one AV1 stream, AAC audio, ignore-set {av1}
C3_Witness ==
    /\ Terminal
    /\ job.status = SKIPPED
    /\ job.media.v = <<av1_av01>>
    /\ job.media.a = <<aac>>
    /\ job.cfg.ignore_codec = {"av1"}

\* the transcoder exited with a non-zero code or could not be started
TranscoderFailed == Terminal /\ (job.returncode = 1 \/ job.launch = "failed")

C5_UnverifiableFails ==
    Terminal /\ job.cfg.verify /\ job.returncode = 0
             /\ (job.probe = "corrupt" \/ job.vmaf_score = None) =>
        job.status = FAILED /\ OriginalIntact

\* the probe succeeded and the comparison returned no score, deletion being enabled
C5_Witness ==
    /\ Terminal
    /\ job.cfg.verify
    /\ job.cfg.delete_original
    /\ job.probe = "ok"
    /\ job.returncode = 0
    /\ job.vmaf_score = None
    /\ job.status = FAILED

C7_NotSmallerIsLargeSize ==
    Terminal /\ ~job.cfg.verify /\ job.cfg.check_size /\ job.returncode = 0
             /\ job.encoded_size >= job.pre.size =>
        job.status = LARGESIZE /\ OriginalIntact

\* the output has exactly the original's size
C7_Witness ==
    /\ Terminal
    /\ ~job.cfg.verify
    /\ job.cfg.check_size
    /\ job.cfg.delete_original
    /\ job.returncode = 0
    /\ job.encoded_size = job.pre.size
    /\ job.status = LARGESIZE

\* the run was interrupted while the transcoder was running for job.f
Interrupted == HasJob /\ job.phase = "exit" /\ job.returncode = None

\* a process start
StartupStep == pc \in {"off", "finished"} /\ pc' = "loop"

\* C8 as stated: an interrupt while the transcoder runs terminates the subprocess,
\* removes the file's temporary output and ends the process with no further file
\* processed; after a restart (with the same filter parameters) the file is in
\* neither the succeeded nor the failed set and is queued again.
C8_InterruptCleansUp ==
    [][/\ job.phase = "running" /\ Interrupted' =>
            /\ job'.child = "exited"
            /\ disk'[job.output_tmp_file] = Absent
            /\ pc' = "off"
            /\ success_encodings' = success_encodings
            /\ failed_encodings' = failed_encodings
       /\ Interrupted /\ StartupStep /\ params' = params =>
            /\ job.f \notin success_encodings' \cup failed_encodings'
            /\ job.f \in QueueFiles(video_queue')]_vars

\* C8, what the interrupt handler does achieve: the process ends with no further
\* file processed and nothing recorded, the original is untouched, the temporary
\* output is gone unless its deletion was refused, and a restart with the same
\* filter parameters queues the file again, in neither result set (the file being
\* still the one that was scanned, not one an earlier unsaved job replaced).
C8_InterruptEndsRun ==
    [][/\ job.phase = "running" /\ Interrupted' =>
            /\ disk'[job.output_tmp_file] # Absent => job'.refused
            /\ disk'[JobOrig] = job.pre
            /\ pc' = "off"
            /\ success_encodings' = success_encodings
            /\ failed_encodings' = failed_encodings
            /\ state_file' = state_file
       /\ Interrupted /\ StartupStep /\ params' = params /\ job.pre = job.media =>
            /\ job.f \notin success_encodings' \cup failed_encodings'
            /\ job.f \in QueueFiles(video_queue')]_vars

\* the candidates whose result has been saved since the last scan
Recorded == {f \in Files : hist.recorded[f] > 0}

NoResume(st, p) ==
    \/ st = NoState
    \/ st.min_size # p.min_size
    \/ st.min_resolution # p.min_resolution
    \/ st.video_queue = {}

\* C10: at startup, a persisted minimum size or minimum resolution differing from
\* the run's, or an empty persisted queue, makes the run discard the persisted
\* state and scan the directory afresh; the persisted queue is reused only when
\* directory and both parameters match and the queue is not empty.
C10_ResumeOrRescan ==
    [][StartupStep =>
         /\ NoResume(state_file, params') =>
               /\ ~hist'.resumed
               /\ video_queue'
                    = prepare_video_queue(disk, {}, {}, NoSkipped, params').video_queue
               /\ success_encodings' = {}
               /\ failed_encodings' = {}
         /\ hist'.resumed =>
               /\ ~NoResume(state_file, params')
               /\ state_file.directory = Directory
               /\ video_queue' = state_file.video_queue]_vars

\* both outcomes have happened: this run resumed a non-empty queue, and it is not
\* the first run, the earlier one having been started on a scan
C10_Witness ==
    /\ pc = "loop"
    /\ hist.resumed
    /\ runs = MaxRuns
    /\ video_queue # {}

\* the state file holds exactly the bookkeeping in memory, with queue q
PersistedIs(q) ==
    /\ state_file # NoState
    /\ state_file.video_queue = q
    /\ state_file.success_encodings = success_encodings
    /\ state_file.failed_encodings = failed_encodings
    /\ state_file.skipped_videos = skipped_videos
    /\ state_file.total_original_size = total_original_size
    /\ state_file.total_encoded_size = total_encoded_size

JobError(j) ==
    \/ j.launch = "failed"
    \/ j.returncode = 1
    \/ j.returncode = 0 /\ j.cfg.verify /\ (j.probe = "corrupt" \/ (j.probe = "ok" /\ j.vmaf_score = None))
    \/ j.replace \in {"unlink_fail", "rename_fail"}

TimesReported(f) ==
    (IF f \in success_encodings THEN 1 ELSE 0)
    + (IF f \in failed_encodings THEN 1 ELSE 0)
    + (IF skipped_videos[f] # NoReason THEN 1 ELSE 0)

\* C13: when the run has completed, every file its scan filtered out by size or
\* resolution and every file the scheduler dequeued is in exactly one of the
\* succeeded set, the failed set and the skipped map.
C13_EveryFileReportedOnce ==
    pc = "finished" => \A f \in hist.cand \cup hist.filtered : TimesReported(f) = 1

\* a completed run with a file filtered by the scan and a file that was dequeued
C13_Witness ==
    /\ pc = "finished"
    /\ hist.filtered # {}
    /\ \E f \in hist.cand : hist.recorded[f] > 0

\* C14 as stated: when the run has completed, the byte counters hold the original and
\* the encoded sizes of exactly the files recorded SUCCESS (their originals replaced),
\* so that the bytes saved are the sum of the differences over those files.
C14_SavedBytesOverSuccesses ==
    pc = "finished" =>
        /\ total_original_size = hist.replaced_original
        /\ total_encoded_size = hist.replaced_encoded

\* C15: the file a run dequeues is at least as large, by the size measured at scan
\* time, as every file still queued, and within a run the queue only loses
\* entries: the files of a run, fresh or resumed, are dequeued largest first.
C15_LargestFirst ==
    [][/\ (pc = "loop" /\ pc' = "job") =>
            /\ job'.original_size = job'.media.size
            /\ Entry(job'.f, job'.media) \in video_queue
            /\ \A e \in video_queue' : e.size <= job'.original_size
       /\ ~StartupStep => video_queue' \subseteq video_queue]_vars

\* a resumed run has dequeued a file that is larger than one still queued
C15_Witness ==
    /\ pc = "job"
    /\ hist.resumed
    /\ \E e \in video_queue : e.size < job.original_size

\* n divided by 1024, k times
RECURSIVE KDiv(_, _)
KDiv(n, k) == IF k = 0 THEN n ELSE KDiv(n \div 1024, k - 1)

\* the power of 1024 a unit stands for
UnitPower(unit) ==
    CASE unit \in {"b", "B"} -> 0
      [] unit \in {"kb", "KB"} -> 1
      [] unit \in {"mb", "MB"} -> 2
      [] unit \in {"gb", "GB"} -> 3
      [] unit \in {"tb", "TB"} -> 4

\* a file of file_size bytes is below the threshold that the text size denotes
\* (file_size < value * 1024^k, computed without the product)
BelowMinSize(file_size, size) ==
    IF size.unit = "" THEN file_size < size.value
    ELSE KDiv(file_size, UnitPower(size.unit)) < size.value

\* the run is at the head of its loop after a fresh scan
FreshlyScanned == pc = "loop" /\ ~hist.resumed

\* the files the scan discovers
Discovered == {f \in Files : disk[OrigPath(f)] # Absent}

\* what C16 asks of a fresh scan for discovered file f
SizeFiltered(f) ==
    LET below == BelowMinSize(disk[OrigPath(f)].size, params.min_size)
    IN  /\ f \in QueueFiles(video_queue) => ~below
        /\ below =>
             /\ f \notin QueueFiles(video_queue)
             /\ skipped_videos[f].kind = "size"
             /\ skipped_videos[f].min_size = params.min_size

\* C16 as stated: after a fresh scan a discovered file is queued only if its size is
\* at least the minimum-size threshold, and every discovered file below the
\* threshold is not queued and is in the skipped map with a reason that names the
\* threshold.
C16_SizeFilter ==
    FreshlyScanned => \A f \in Discovered : SizeFiltered(f)

\* C16 for the thresholds given as a number or in b, kb, mb or gb: it holds
C16_SizeFilterKnownUnits ==
    (FreshlyScanned /\ params.min_size.unit \notin {"tb", "TB"}) =>
        \A f \in Discovered : SizeFiltered(f)

\* a fresh scan with one file at the threshold queued and one file below it skipped
C16_Witness ==
    /\ FreshlyScanned
    /\ params.min_size.unit \notin {"tb", "TB"}
    /\ \E f \in Discovered : f \in QueueFiles(video_queue)
    /\ \E f \in Discovered : skipped_videos[f].kind = "size"

\* the dimensions of stream x are known
KnownDimensions(x) == x.width \in Nat \ {0} /\ x.height \in Nat \ {0}

\* the pixel area of stream x is known and below the area of resolution label r
AreaBelow(x, r) == KnownDimensions(x) /\ x.width * x.height < RESOLUTION(r)

\* file f passed the scan's size filter and has a usable video stream
ReachedResolutionFilter(f) ==
    /\ disk[OrigPath(f)].v # <<>>
    /\ skipped_videos[f].kind # "size"

\* C17: after a fresh scan with a minimum resolution, a file is in the skipped map
\* for resolution only if every usable video stream has a known area below the
\* threshold; a file that reached the resolution filter and has a stream at or above
\* the threshold, or a stream of unknown dimensions, is queued.
C17_SkippedOnlyIfAllBelow ==
    (FreshlyScanned /\ params.min_resolution # "none") =>
        \A f \in Discovered :
            LET v == disk[OrigPath(f)].v
            IN  /\ skipped_videos[f].kind = "resolution" =>
                     \A i \in 1..Len(v) : AreaBelow(v[i], params.min_resolution)
                /\ (ReachedResolutionFilter(f)
                       /\ \E i \in 1..Len(v) : ~AreaBelow(v[i], params.min_resolution)) =>
                     /\ f \in QueueFiles(video_queue)
                     /\ skipped_videos[f] = NoReason

\* a fresh scan at 720p: a file with a small stream and a stream of unknown
\* dimensions is queued, a file whose streams are all small is skipped
C17_Witness ==
    /\ FreshlyScanned
    /\ params.min_resolution = "720p"
    /\ \E f \in Discovered :
         /\ disk[OrigPath(f)].v = <<h264_360, h264_nodim>>
         /\ f \in QueueFiles(video_queue)
    /\ \E f \in Discovered : skipped_videos[f].kind = "resolution"

\* C18 as stated: when a process start finds a state file and scans afresh (the
\* parameters differ or the persisted queue is empty), no file that the state file
\* records as succeeded or failed is placed in the new queue.
C18_ProcessedNotRequeued ==
    [][(StartupStep /\ state_file # NoState /\ ~hist'.resumed) =>
          QueueFiles(video_queue') \cap
              (state_file.success_encodings \cup state_file.failed_encodings) = {}]_vars

\* every video stream of job j is in the target codec, which is in the ignore-set,
\* and does not carry the legacy tag
AllVideoInTarget(j) ==
    /\ j.media.v # <<>>
    /\ \A i \in 1..Len(j.media.v) :
         /\ j.media.v[i].codec = j.cfg.codec
         /\ j.media.v[i].codec \in j.cfg.ignore_codec
         /\ j.media.v[i].tag # "hev1"

\* every audio stream of job j is in a codec that is copied
AllAudioCompatible(j) ==
    \A i \in 1..Len(j.media.a) : j.media.a[i].codec \in compatible_codecs

\* no command is built for the job, it has not started the transcoder, and once it
\* has ended it is SKIPPED
SkippedWithoutTranscoder ==
    /\ prepare_cmd(job.cfg.codec, job.media.v, job.media.a, job.cfg.ignore_codec) = NoCmd
    /\ job.phase \in {"ready", "done"}
    /\ job.launch = "none"
    /\ job.returncode = None
    /\ job.phase = "done" => job.status = SKIPPED

LegacyTagged(j, i) ==
    /\ j.cfg.codec = "hevc"
    /\ j.media.v[i].codec = "hevc"
    /\ j.media.v[i].tag = "hev1"

\* stream i of the job is remuxed: its directive is a stream copy with the tag
\* rewritten to hvc1 and names no encoder; a command is built and the job does not
\* end SKIPPED
Remuxed(i) ==
    LET args == prepare_video_args(job.cfg.codec, job.media.v, job.cfg.ignore_codec)
    IN  /\ args[i] = map_prefix_v \o <<"copy", "-tag:v", "hvc1">>
        /\ ~InSeq(EncoderOf(job.cfg.codec), args[i])
        /\ prepare_cmd(job.cfg.codec, job.media.v, job.media.a, job.cfg.ignore_codec) # NoCmd
        /\ Terminal => job.status # SKIPPED

Arg(kind, value) == [kind |-> kind, value |-> value]
NoArg == Arg("none", 0)

\* Python truthiness of an argument: None and the int 0 are false, a str of digits
\* (even "0") is true
ArgTruthy(x) == x.kind = "str" \/ (x.kind = "int" /\ x.value # 0)

\* max(lo, min(int(x), hi))
Clamp(n, lo, hi) == IF n < lo THEN lo ELSE IF n > hi THEN hi ELSE n

\* "if x: x = max(lo, min(int(x), hi))" of the AV1 constructors: the attribute that
\* reaches CRFEncoder.__init__, an int where it was clamped
ClampIfGiven(x, lo, hi) ==
    IF ArgTruthy(x) THEN Arg("int", Clamp(x.value, lo, hi)) ELSE x

\* the encoder classes
Variants == {"hevc", "svtav1", "libaom"}

\* self.crf after the constructor of the variant (HevcEncoder passes it on unchanged)
init_crf(variant, crf) ==
    IF variant = "hevc" THEN crf ELSE ClampIfGiven(crf, 1, 63)

\* self.preset after the constructor of the variant
init_preset(variant, preset) ==
    CASE variant = "hevc" -> preset
      [] variant = "svtav1" -> ClampIfGiven(preset, 1, 13)
      [] variant = "libaom" -> ClampIfGiven(preset, 0, 8)

\* the order of the keys of RESOLUTION
ResolutionKeys == <<"4k", "2k", "1080p", "720p", "480p", "360p">>

\* GeneralConfig.default_resolution
DefaultResolution == "1080p"

\* VideoStream.get_readable_resolution_or_default; the tolerance is in percent
RECURSIVE FirstBucket(_, _, _)
FirstBucket(pixel_count, tolerance, k) ==
    IF k > Len(ResolutionKeys) THEN DefaultResolution
    ELSE LET standard_pixels == RESOLUTION(ResolutionKeys[k])
             diff == IF pixel_count >= standard_pixels THEN pixel_count - standard_pixels
                     ELSE standard_pixels - pixel_count
         IN  IF diff * 100 <= standard_pixels * tolerance \/ pixel_count >= standard_pixels
             THEN ResolutionKeys[k]
             ELSE FirstBucket(pixel_count, tolerance, k + 1)

\* variant: the tolerance counts twice
get_readable_resolution_or_default_wide(vs, tolerance) ==
    IF vs.height = None \/ vs.width = None THEN DefaultResolution
    ELSE FirstBucket(vs.width * vs.height, tolerance * 2, 1)

get_readable_resolution_or_default(vs, tolerance) ==
    IF vs.height = None \/ vs.width = None THEN DefaultResolution
    ELSE FirstBucket(vs.width * vs.height, tolerance, 1)

\* DEFAULT_CRF of the variant (HEVCConfig, SVTAV1Config, LibAomAV1Config)
DEFAULT_CRF(variant, r) ==
    CASE variant = "hevc" ->
           (CASE r = "4k" -> 25 [] r = "2k" -> 24 [] r = "1080p" -> 23
              [] r = "720p" -> 22 [] r = "480p" -> 20 [] r = "360p" -> 19)
      [] variant = "svtav1" ->
           (CASE r = "4k" -> 30 [] r = "2k" -> 29 [] r = "1080p" -> 28
              [] r = "720p" -> 27 [] r = "480p" -> 25 [] r = "360p" -> 24)
      [] variant = "libaom" ->
           (CASE r = "4k" -> 28 [] r = "2k" -> 27 [] r = "1080p" -> 27
              [] r = "720p" -> 24 [] r = "480p" -> 21 [] r = "360p" -> 19)

\* DEFAULT_PRESET of the AV1 variants (the HEVC presets are names: 0 stands for them)
DEFAULT_PRESET(variant, r) ==
    CASE variant = "hevc" -> 0
      [] variant = "svtav1" ->
           (CASE r \in {"4k", "2k"} -> 4 [] r \in {"1080p", "720p"} -> 5 [] OTHER -> 6)
      [] variant = "libaom" -> 4

\* str(x): the text put in the command, with the number it spells and whether it is
\* the str the caller gave or the spelling of an int
Text(x) == [spells |-> x.value, of |-> x.kind]

\* CRFEncoder.get_crf
get_crf(variant, crf, vs, tolerance) ==
    IF crf.kind # "none" THEN Text(crf)
    ELSE Text(Arg("int", DEFAULT_CRF(variant, get_readable_resolution_or_default(vs, tolerance))))

\* PresetCRFEncoder.get_preset
get_preset(variant, preset, vs, tolerance) ==
    IF preset.kind # "none" THEN Text(preset)
    ELSE Text(Arg("int", DEFAULT_PRESET(variant, get_readable_resolution_or_default(vs, tolerance))))

\* the CRF and preset arguments the constructors are tried with
CrfArgs ==
    {NoArg, Arg("int", 0), Arg("int", 1), Arg("int", 23), Arg("int", 63), Arg("int", 64),
     Arg("int", 0 - 5), Arg("str", 0), Arg("str", 30), Arg("str", 99)}
PresetArgs ==
    {NoArg, Arg("int", 0), Arg("int", 6), Arg("int", 13), Arg("int", 14), Arg("str", 9)}

\* the streams the arguments are prepared for
Sized(w, h) == VStream("h264", "avc1", w, h, FALSE, 10)
ArgStreams ==
    {Sized(3840, 2160), Sized(1920, 1080), Sized(1600, 900), Sized(1400, 1080),
     Sized(1280, 720), Sized(640, 360), Sized(320, 240), Sized(None, None)}

\* GeneralConfig.resolution_tolerance in percent (validate allows 0 to 1)
Tolerances == {0, 5, 43, 44, 50, 100}

\* An encoder of one variant is constructed with a CRF and a preset argument for a
\* file with one video stream.
InitArgs ==
    /\ \E variant \in Variants, crf \in CrfArgs, preset \in PresetArgs,
          vs \in ArgStreams, tolerance \in Tolerances :
         job = [phase |-> "args", variant |-> variant, crf_arg |-> crf,
                preset_arg |-> preset, stream |-> vs, tolerance |-> tolerance,
                crf |-> NoArg, preset |-> NoArg, resolution |-> "-",
                cmd_crf |-> Text(NoArg), cmd_preset |-> Text(NoArg)]
    /\ disk = [p \in AllPaths |-> Absent]
    /\ is_mp4 = [f \in Files |-> FALSE]
    /\ pc = "job"
    /\ video_queue = {}
    /\ success_encodings = {}
    /\ failed_encodings = {}
    /\ skipped_videos = NoSkipped
    /\ total_original_size = 0
    /\ total_encoded_size = 0
    /\ params = [min_size |-> SizeText(1, "b"), min_resolution |-> "none"]
    /\ opts = [verify |-> FALSE, force |-> FALSE, codec |-> "hevc"]
    /\ state_file = NoState
    /\ runs = 0
    /\ hist = NoHist

\* the constructor of the variant stores crf and preset
Construct ==
    /\ job.phase = "args"
    /\ job' = [job EXCEPT !.phase = "built",
                          !.crf = init_crf(job.variant, job.crf_arg),
                          !.preset = init_preset(job.variant, job.preset_arg)]
    /\ UNCHANGED <<disk, is_mp4, pc, schedVars, hist>>

\* prepare_video_args puts get_crf and get_preset of the stream in the command
PrepareArgs ==
    /\ job.phase = "built"
    /\ job' = [job EXCEPT
                 !.phase = "prepared",
                 !.resolution = get_readable_resolution_or_default(job.stream, job.tolerance),
                 !.cmd_crf = get_crf(job.variant, job.crf, job.stream, job.tolerance),
                 !.cmd_preset = get_preset(job.variant, job.preset, job.stream, job.tolerance)]
    /\ UNCHANGED <<disk, is_mp4, pc, schedVars, hist>>

NextArgs == Construct \/ PrepareArgs

SpecArgs == InitArgs /\ [][NextArgs]_vars

\* the valid CRF range of a variant
CrfLow(variant) == IF variant = "hevc" THEN 0 ELSE 1
CrfHigh(variant) == IF variant = "hevc" THEN 51 ELSE 63

\* the valid numeric preset range of an AV1 variant
PresetLow(variant) == IF variant = "svtav1" THEN 1 ELSE 0
PresetHigh(variant) == IF variant = "svtav1" THEN 13 ELSE 8

\* the arguments are in the command
Prepared == job.phase = "prepared"

\* C21 as stated: for every variant and every supplied CRF or numeric preset, the
\* value in the command is the supplied value clamped into the variant's valid
\* range (the numeric preset ranges are those of the two AV1 variants).
C21_SuppliedValueClamped ==
    Prepared =>
        /\ job.crf_arg.kind # "none" =>
             job.cmd_crf.spells =
                 Clamp(job.crf_arg.value, CrfLow(job.variant), CrfHigh(job.variant))
        /\ (job.preset_arg.kind # "none" /\ job.variant # "hevc") =>
             job.cmd_preset.spells =
                 Clamp(job.preset_arg.value, PresetLow(job.variant), PresetHigh(job.variant))

\* C21 for the values the constructors do clamp: a CRF or preset that is not the
\* int 0, given to an AV1 variant, is in the command clamped to the range
C21_NonZeroClampedForAV1 ==
    (Prepared /\ job.variant # "hevc") =>
        /\ ArgTruthy(job.crf_arg) =>
             job.cmd_crf.spells = Clamp(job.crf_arg.value, 1, 63)
        /\ ArgTruthy(job.preset_arg) =>
             job.cmd_preset.spells =
                 Clamp(job.preset_arg.value, PresetLow(job.variant), PresetHigh(job.variant))

\* a stream whose pixel area is the nominal pixel count of resolution r
NominalStream(r) == Sized(RESOLUTION(r), 1)

\* the bucket of the nominal stream of the job's bucket is that bucket
BucketStable ==
    get_readable_resolution_or_default(NominalStream(job.resolution), job.tolerance)
        = job.resolution

\* C24 as stated: for every stream and every allowed tolerance, bucketing a stream
\* of the nominal pixel count of the stream's bucket yields that bucket.
C24_BucketingIdempotent == Prepared => BucketStable

\* C24, amended: the same for every tolerance below 0.4375 (43.75 percent)
C24_BucketingIdempotentSmallTolerance ==
    (Prepared /\ job.tolerance * 100 < 4375) => BucketStable

\* at tolerance 0.43 a 1600x900 stream is bucketed 1080p by the tolerance
C24_Witness ==
    /\ Prepared
    /\ job.tolerance = 43
    /\ job.stream = Sized(1600, 900)
    /\ job.resolution = "1080p"
    /\ BucketStable

\* ------------------------------------------------------------------ progress tracking
\* ProgressMode
TIME == "time"
FRAME == "frame"
NONE == "none"

\* CustomEncoder._find_progress_mode: the mode, and whether a tqdm bar is made
find_progress_mode(duration, total_frames) ==
    IF duration # None THEN [mode |-> TIME, pbar |-> TRUE]
    ELSE IF total_frames # None /\ total_frames > 0 THEN [mode |-> FRAME, pbar |-> TRUE]
    ELSE [mode |-> NONE, pbar |-> FALSE]

\* The lines of the progress stream by what the two update functions see in them:
\* a time stamp, "out_time=N/A", a frame number, a frame number of more digits than
\* int() converts (ValueError), another line, bytes that are not UTF-8.
LineKinds == {"time", "na", "frame", "frame_huge", "other", "undecodable"}

\* CustomEncoder._time_progress_update: whether the line counts as valid
time_progress_update(line) == line # "na"

\* CustomEncoder._frame_progress_update: whether the line counts as valid
frame_progress_update(line) == line # "frame_huge"

\* max_tolerance of CustomEncoder._encode
max_tolerance == 2

\* CustomEncoder._encode is entered for a file whose command is built.  exit_code
\* is the code the transcoder ends with once it runs to its end.
InitProgress ==
    /\ \E duration \in {None, 10}, total_frames \in {0, 100}, exit_code \in {0, 1} :
         job = [phase |-> "new", duration |-> duration, total_frames |-> total_frames,
                exit_code |-> exit_code, mode |-> NONE, pbar |-> FALSE, num_invalid |-> 0,
                n |-> 0, prev |-> "none", child |-> "none", result |-> "none"]
    /\ disk = [p \in AllPaths |-> Absent]
    /\ is_mp4 = [f \in Files |-> FALSE]
    /\ pc = "job"
    /\ video_queue = {}
    /\ success_encodings = {}
    /\ failed_encodings = {}
    /\ skipped_videos = NoSkipped
    /\ total_original_size = 0
    /\ total_encoded_size = 0
    /\ params = [min_size |-> SizeText(1, "b"), min_resolution |-> "none"]
    /\ opts = [verify |-> FALSE, force |-> FALSE, codec |-> "hevc"]
    /\ state_file = NoState
    /\ runs = 0
    /\ hist = NoHist

\* _encode up to the start of the transcoder: the duration is formatted with
\* "{duration:.2f}" (TypeError when it is None), the progress mode is found, and the
\* transcoder is started with Popen, or run to its end with subprocess.run when the
\* mode is NONE.
EncodeStart ==
    /\ job.phase = "new"
    /\ IF job.duration = None
       THEN job' = [job EXCEPT !.phase = "done", !.result = "raised"]
       ELSE LET m == find_progress_mode(job.duration, job.total_frames)
            IN  IF m.mode # NONE
                THEN job' = [job EXCEPT !.phase = "reading", !.mode = m.mode,
                                        !.pbar = m.pbar, !.child = "running"]
                ELSE job' = [job EXCEPT !.phase = "done", !.child = "exited",
                                        !.result = IF job.exit_code = 0 THEN "success"
                                                   ELSE "called_process_error"]
    /\ UNCHANGED <<disk, is_mp4, pc, schedVars, hist>>

\* one turn of "for line in process.stdout".  prev tells whether the previous line
\* under the current mode was valid.
ReadLine ==
    /\ job.phase = "reading"
    /\ job.n < MaxLines
    /\ \E line \in LineKinds :
         IF line = "undecodable"
         THEN \* UnicodeDecodeError leaves the loop; the transcoder is not waited for
              job' = [job EXCEPT !.phase = "done", !.result = "raised", !.n = @ + 1]
         ELSE IF job.mode = TIME
         THEN LET valid == time_progress_update(line)
                  num_invalid == IF valid THEN job.num_invalid ELSE job.num_invalid + 1
                  m == find_progress_mode(None, job.total_frames)
              IN  IF num_invalid >= max_tolerance
                  THEN job' = [job EXCEPT !.mode = m.mode, !.pbar = m.pbar,
                                          !.num_invalid = 0, !.prev = "none", !.n = @ + 1]
                  ELSE job' = [job EXCEPT !.num_invalid = num_invalid, !.n = @ + 1,
                                          !.prev = IF valid THEN "valid" ELSE "invalid"]
         ELSE IF job.mode = FRAME
         THEN LET valid == frame_progress_update(line)
                  num_invalid == IF valid THEN job.num_invalid ELSE job.num_invalid + 1
                  m == find_progress_mode(None, 0)
              IN  IF num_invalid >= max_tolerance
                  THEN \* "pbar.leave = False" on the None that was just assigned:
                       \* AttributeError leaves the loop
                       job' = [job EXCEPT !.mode = m.mode, !.pbar = m.pbar,
                                          !.num_invalid = num_invalid, !.prev = "none",
                                          !.n = @ + 1, !.phase = "done",
                                          !.result = "raised"]
                  ELSE job' = [job EXCEPT !.num_invalid = num_invalid, !.n = @ + 1,
                                          !.prev = IF valid THEN "valid" ELSE "invalid"]
         ELSE job' = [job EXCEPT !.pbar = FALSE, !.n = @ + 1]
    /\ UNCHANGED <<disk, is_mp4, pc, schedVars, hist>>

\* the stream ends: process.wait(), SUCCESS for code 0, CalledProcessError otherwise
StreamEnd ==
    /\ job.phase = "reading"
    /\ job' = [job EXCEPT !.phase = "done", !.pbar = FALSE, !.child = "exited",
                          !.result = IF job.exit_code = 0 THEN "success"
                                     ELSE "called_process_error"]
    /\ UNCHANGED <<disk, is_mp4, pc, schedVars, hist>>

NextProgress == EncodeStart \/ ReadLine \/ StreamEnd

SpecProgress == InitProgress /\ [][NextProgress]_vars

\* _encode has returned or raised
EncodeOver == job.phase = "done"

\* C22 as stated: once the transcoder has been started, what _encode hands to
\* encode_wrapper depends on the transcoder's exit code alone (SUCCESS for code 0,
\* the transcoder's failure otherwise), whatever the progress stream held, and no
\* tracker event ends the job.
C22_OutcomeByExitCodeAlone ==
    (EncodeOver /\ job.child # "none") =>
        /\ job.child = "exited"
        /\ job.result = IF job.exit_code = 0 THEN "success" ELSE "called_process_error"

\* C23 as stated: when neither the duration nor the frame count is known, _encode
\* still starts the transcoder and lets it run to its end, and the outcome is the
\* one the exit code gives: the missing progress data alone fails nothing.
C23_NoMetadataStillRuns ==
    (EncodeOver /\ job.duration = None /\ job.total_frames = 0) =>
        /\ job.child = "exited"
        /\ job.result = IF job.exit_code = 0 THEN "success" ELSE "called_process_error"

\* C28 as stated: the tracker leaves its current strategy only when the update just
\* read and the one before it, both under that strategy, were unparsable.
C28_FallbackAfterTwoConsecutive ==
    [][(job.phase = "reading" /\ job'.mode # job.mode) => job.prev = "invalid"]_vars

\* ------------------------------------------------------------------ C25
\* the job ended FAILED although its transcoder exited with code 0: the failure
\* came from the verification or from the replacement
FailedAfterRun == Terminal /\ job.status = FAILED /\ job.returncode = 0

HandlesLargeSize == pc = "job" /\ job.phase = "done" /\ job.status = LARGESIZE /\ pc' = "loop"

InitReplace ==
    /\ \E f \in Files, fs \in {"ok", "unlink_fail", "rename_fail"},
          original \in {Absent} \cup {Content(sz, <<h264_1080>>, <<aac>>, 0) : sz \in Sizes},
          encoded \in {Absent} \cup {Content(sz, <<hevc_hvc1>>, <<aac>>, 1) : sz \in Sizes} :
       \E new \in {OrigPath(f)} \cup {<<f, "new", n>> : n \in Suffixes} :
         /\ disk = [p \in AllPaths |->
                        IF p = OrigPath(f) THEN original
                        ELSE IF p = <<f, "tmp_hevc", 0>> THEN encoded
                        ELSE Absent]
         /\ job = [phase |-> "replace", f |-> f, output_tmp_file |-> <<f, "tmp_hevc", 0>>,
                   new_file_path |-> new, fs |-> fs, encoded |-> encoded,
                   status |-> "-", replace |-> "-"]
    /\ is_mp4 = [f \in Files |-> FALSE]
    /\ pc = "job"
    /\ video_queue = {}
    /\ success_encodings = {}
    /\ failed_encodings = {}
    /\ skipped_videos = NoSkipped
    /\ total_original_size = 0
    /\ total_encoded_size = 0
    /\ params = [min_size |-> SizeText(1, "b"), min_resolution |-> "none"]
    /\ opts = [verify |-> FALSE, force |-> FALSE, codec |-> "hevc"]
    /\ state_file = NoState
    /\ runs = 0
    /\ hist = NoHist

\* CRFEncoder._replace_original runs
ReplaceStep ==
    /\ job.phase = "replace"
    /\ LET r == replace_original(disk, OrigPath(job.f), job.output_tmp_file,
                                 job.new_file_path, job.fs)
       IN  /\ job' = [job EXCEPT !.phase = "replaced", !.status = r.status,
                                 !.replace = r.replace]
           /\ disk' = r.disk
    /\ UNCHANGED <<is_mp4, pc, schedVars, hist>>

SpecReplace == InitReplace /\ [][ReplaceStep]_vars

\* the original is deleted and the temporary output is at the final path
Replaced ==
    /\ job.encoded # Absent
    /\ disk[job.new_file_path] = job.encoded
    /\ disk[job.output_tmp_file] = Absent
    /\ job.new_file_path # OrigPath(job.f) => disk[OrigPath(job.f)] = Absent

\* C27 as stated: the replace step returns SUCCESS only when the original was
\* deleted and the temporary output renamed to the final path; when the deletion
\* or the rename fails, or there is no temporary file to rename, it returns FAILED.
C27_SuccessOnlyIfReplaced ==
    job.phase = "replaced" =>
        /\ job.status \in {SUCCESS, FAILED}
        /\ job.status = SUCCESS <=> Replaced

\* ------------------------------------------------------------------ the paths of a job
\* the names a job of candidate f may find taken: every temporary and final name
\* but the last suffix of each kind
Leftovers(f) == {p \in {f} \X PathKinds \X Suffixes : p[3] < MaxRuns}

\* An encoder is about to be constructed for candidate 1, with files of earlier
\* jobs on disk under any of the names it may try.
InitPaths ==
    /\ \E mp4 \in BOOLEAN, delete_original \in BOOLEAN, codec \in Codecs, size \in Sizes,
          taken \in SUBSET Leftovers(1) :
         /\ disk = [p \in AllPaths |->
                        IF p = OrigPath(1) THEN Content(size, <<h264_1080>>, <<aac>>, 0)
                        ELSE IF p \in taken THEN Partial
                        ELSE Absent]
         /\ is_mp4 = [f \in Files |-> mp4 /\ f = 1]
         /\ job = [phase |-> "unbuilt", f |-> 1,
                   cfg |-> Config(delete_original, FALSE, 0, TRUE, codec, EFFICIENT_CODEC)]
    /\ pc = "job"
    /\ video_queue = {}
    /\ success_encodings = {}
    /\ failed_encodings = {}
    /\ skipped_videos = NoSkipped
    /\ total_original_size = 0
    /\ total_encoded_size = 0
    /\ params = [min_size |-> SizeText(1, "b"), min_resolution |-> "none"]
    /\ opts = [verify |-> FALSE, force |-> FALSE, codec |-> "hevc"]
    /\ state_file = NoState
    /\ runs = 0
    /\ hist = NoHist

\* CRFEncoder.__init__
BuildJob ==
    /\ job.phase = "unbuilt"
    /\ job' = NewJob(disk, job.f, is_mp4[job.f], disk[OrigPath(job.f)], job.cfg)
    /\ UNCHANGED <<disk, is_mp4, pc, schedVars, hist>>

SpecPaths == InitPaths /\ [][BuildJob]_vars

\* path p is the first name of its kind that names no file
FoundBySuffixing(p) ==
    /\ disk[p] = Absent
    /\ \A k \in Suffixes : k < p[3] => disk[<<p[1], p[2], k>>] # Absent

\* C29: at construction the temporary output path names no existing file and is
\* not the original's path; with delete-original the final path is the original's
\* own path (already <stem>.mp4 in the output directory) or a free path found by
\* numeric suffixing; without it the final path is the temporary path.
C29_PathsAtConstruction ==
    job.phase = "ready" =>
        /\ disk[job.output_tmp_file] = Absent
        /\ job.output_tmp_file # OrigPath(job.f)
        /\ IF job.cfg.delete_original
           THEN IF is_mp4[job.f] THEN job.new_file_path = OrigPath(job.f)
                ELSE job.new_file_path[2] = "new" /\ FoundBySuffixing(job.new_file_path)
           ELSE job.new_file_path = job.output_tmp_file

\* both names were found past names already taken
C29_Witness ==
    /\ job.phase = "ready"
    /\ job.cfg.delete_original
    /\ ~is_mp4[job.f]
    /\ job.new_file_path[3] > 0
    /\ job.output_tmp_file[3] > 0
    /\ disk[<<job.f, job.output_tmp_file[2], 0>>] # Absent

\* ------------------------------------------------------------------ C30
\* the scheduler pops the next entry of the queue
Dequeues == pc = "loop" /\ pc' = "job"

\* C30 as stated: after a write of the state file failed in the loop, the run is
\* aborted: the scheduler does not dequeue another file.
C30_FailedSaveAbortsRun ==
    [][hist.unsaved => ~Dequeues]_vars

\* ------------------------------------------------------------------ states of older versions
\* The program starts on a directory of two candidates with a state file left by
\* an interrupted session of some version: file 2 succeeded, file 1 is queued, and
\* any of the keys may be missing.
InitLoad ==
    /\ disk = [p \in AllPaths |->
                   IF p = OrigPath(1) THEN Content(MaxSize, <<h264_1080>>, <<mp3>>, 0)
                   ELSE IF p = OrigPath(2) THEN Content(1, <<hevc_hvc1>>, <<aac>>, 1)
                   ELSE Absent]
    /\ is_mp4 = [f \in Files |-> f = 2]
    /\ \E p \in RunParams,
          keys \in SUBSET {"directory", "success_encodings", "failed_encodings",
                           "skipped_videos", "video_queue", "min_size", "min_resolution",
                           "total_original_size", "total_encoded_size"} :
         LET saved == SavedState({2}, {}, NoSkipped, {Entry(1, disk[OrigPath(1)])}, p,
                                 MaxSize, 1)
         IN  state_file = [k \in keys |-> saved[k]]
    /\ job = NoJob
    /\ pc = "off"
    /\ video_queue = {}
    /\ success_encodings = {}
    /\ failed_encodings = {}
    /\ skipped_videos = NoSkipped
    /\ total_original_size = 0
    /\ total_encoded_size = 0
    /\ params = [min_size |-> SizeText(1, "b"), min_resolution |-> "none"]
    /\ opts = [verify |-> FALSE, force |-> FALSE, codec |-> "hevc"]
    /\ state_file # NoState
    /\ runs = 0
    /\ hist = NoHist

\* the constructor alone, on such a state file
SpecLoad == InitLoad /\ [][Startup \/ Kill]_vars

\* the resume decision of load_state, made on the defaulted values
ResumableWithDefaults(st, p) ==
    /\ Get(st, "directory", "-") = Directory
    /\ Get(st, "video_queue", {}) # {}
    /\ Get(st, "min_size", DEFAULT_MIN_SIZE) = p.min_size
    /\ Get(st, "min_resolution", "none") = p.min_resolution

\* C31: loading a state that lacks keys does not fail; each missing key takes its
\* default (empty sets and queue, no skipped entry, the default minimum size, no
\* minimum resolution, zero counters), the decision to resume is made on those
\* values, and a resumed run continues with them.
C31_MissingKeysDefaulted ==
    [][StartupStep =>
         /\ hist'.resumed =>
               /\ ResumableWithDefaults(state_file, params')
               /\ video_queue' = Get(state_file, "video_queue", {})
               /\ success_encodings' = Get(state_file, "success_encodings", {})
               /\ failed_encodings' = Get(state_file, "failed_encodings", {})
               /\ skipped_videos' = Get(state_file, "skipped_videos", NoSkipped)
               /\ total_original_size' = Get(state_file, "total_original_size", 0)
               /\ total_encoded_size' = Get(state_file, "total_encoded_size", 0)
         /\ ~hist'.resumed =>
               /\ video_queue'
                    = prepare_video_queue(disk, {}, {}, NoSkipped, params').video_queue
               /\ success_encodings' = {}
               /\ failed_encodings' = {}
               /\ total_original_size' = 0
               /\ total_encoded_size' = 0]_vars

\* a session was resumed from a state that held the queue but neither the result
\* sets nor the counters nor the filter parameters
C31_Witness ==
    /\ pc = "loop"
    /\ hist.resumed
    /\ runs = 1
    /\ video_queue # {}
    /\ success_encodings = {}
    /\ total_original_size = 0
    /\ params.min_size = DEFAULT_MIN_SIZE
    /\ params.min_resolution = "none"

\* ------------------------------------------------------------------ C32
\* the stream's dimensions are known
Dimensioned(vs) == vs.width # None /\ vs.height # None

\* C32 as stated: the bucket of a stream of known dimensions is the largest bucket
\* whose nominal pixel count the stream reaches within the tolerance, and bucketing
\* is monotone in the pixel area: no stream of a larger area gets a lower bucket.
C32_BucketingMonotone ==
    (Prepared /\ Dimensioned(job.stream)) =>
        \A vs \in ArgStreams :
            (Dimensioned(vs) /\ vs.width * vs.height >= job.stream.width * job.stream.height)
                => RESOLUTION(get_readable_resolution_or_default(vs, job.tolerance))
                       >= RESOLUTION(job.resolution)

\* the stream reaches the nominal pixel count of bucket r within the tolerance
Reaches(vs, r, tolerance) ==
    vs.width * vs.height * 100 >= RESOLUTION(r) * (100 - tolerance)

\* the stream reaches the smallest bucket within the tolerance
ReachesSome(vs, tolerance) == Reaches(vs, ResolutionKeys[Len(ResolutionKeys)], tolerance)

\* C32, amended: a stream of known dimensions that reaches some bucket within the
\* tolerance gets the largest bucket it reaches, and among such streams bucketing
\* is monotone in the pixel area; a stream of known dimensions below every bucket
\* gets the default bucket.
C32_BucketingMonotoneAboveSmallest ==
    (Prepared /\ Dimensioned(job.stream)) =>
        IF ReachesSome(job.stream, job.tolerance)
        THEN /\ Reaches(job.stream, job.resolution, job.tolerance)
             /\ \A k \in 1..Len(ResolutionKeys) :
                    Reaches(job.stream, ResolutionKeys[k], job.tolerance)
                        => RESOLUTION(ResolutionKeys[k]) <= RESOLUTION(job.resolution)
             /\ \A vs \in ArgStreams :
                    (Dimensioned(vs)
                       /\ vs.width * vs.height >= job.stream.width * job.stream.height)
                        => RESOLUTION(get_readable_resolution_or_default(vs, job.tolerance))
                               >= RESOLUTION(job.resolution)
        ELSE job.resolution = DefaultResolution

\* a stream below a bucket's nominal pixel count got that bucket by the tolerance
C32_Witness ==
    /\ Prepared
    /\ Dimensioned(job.stream)
    /\ job.resolution # DefaultResolution
    /\ job.stream.width * job.stream.height < RESOLUTION(job.resolution)
    /\ Reaches(job.stream, job.resolution, job.tolerance)

\* ------------------------------------------------------------------ C33
\* content c is a whole file: the original, or an output the transcoder completed
Whole(c) == c # Absent /\ c # Partial

\* C33: in every terminal state of a job (returned with any status, or ended by an
\* operator interrupt) the original or the encoded output, at the temporary or the
\* final path, is on disk.
C33_NeverBothGone ==
    (HasJob /\ job.phase \in {"done", "exit"}) =>
        \/ Whole(disk[JobOrig])
        \/ Whole(disk[job.output_tmp_file])
        \/ Whole(disk[job.new_file_path])

\* the original is gone and the encoded output is at a final path of its own
C33_Witness ==
    /\ Terminal
    /\ job.status = SUCCESS
    /\ job.new_file_path # JobOrig
    /\ disk[JobOrig] = Absent
    /\ disk[job.output_tmp_file] = Absent
    /\ Whole(disk[job.new_file_path])

\* ------------------------------------------------------------------ C34
\* the job runs with delete_original off
KeepsOriginal == HasJob /\ ~job.cfg.delete_original

\* C34: with delete_original off the original stays on disk as it was through every
\* step and outcome of the job, and a job that ends SUCCESS leaves the encoded
\* output at the temporary path, which is also the final path.
C34_OriginalKeptWithoutDelete ==
    KeepsOriginal =>
        /\ disk[JobOrig] = job.pre
        /\ job.pre # Absent
        /\ job.new_file_path = job.output_tmp_file
        /\ (Terminal /\ job.status = SUCCESS) =>
               /\ Whole(disk[job.output_tmp_file])
               /\ disk[job.output_tmp_file].size = job.encoded_size

\* a job with delete_original off ended SUCCESS
C34_Witness ==
    /\ KeepsOriginal
    /\ Terminal
    /\ job.status = SUCCESS
    /\ Whole(disk[JobOrig])
    /\ Whole(disk[job.output_tmp_file])

\* ------------------------------------------------------------------ C35
\* the verification of the job gave a score
Scored == Terminal /\ job.cfg.verify /\ job.vmaf_score # None

\* C35: every job of the batch is built with the threshold 0; no job of the batch
\* ends LOWQUALITY, and an output that was scored goes on to the size check: it
\* ends LARGESIZE when it is not smaller than the original and is taken to the
\* replace step when it is.
C35_BatchNeverLowQuality ==
    HasJob =>
        /\ job.cfg.delete_threshold = 0
        /\ Terminal => job.status # LOWQUALITY
        /\ Scored =>
               IF job.encoded_size >= job.pre.size
               THEN job.status = LARGESIZE /\ job.replace = "none"
               ELSE job.status \in {SUCCESS, FAILED} /\ job.replace # "none"

\* an output scored 0 replaced its original
C35_Witness ==
    /\ Scored
    /\ job.vmaf_score = 0
    /\ job.status = SUCCESS
    /\ job.replace = "ok"

\* ------------------------------------------------------------------ C36
\* C36: a job whose output was scored ends LOWQUALITY exactly when the score is
\* strictly below the threshold; a score equal to the threshold does not veto the
\* replacement.
C36_LowQualityIffStrictlyBelow ==
    Scored => (job.status = LOWQUALITY <=> job.vmaf_score < job.cfg.delete_threshold)

\* an output scored exactly the threshold replaced its original
C36_Witness ==
    /\ Scored
    /\ job.cfg.delete_threshold > 0
    /\ job.vmaf_score = job.cfg.delete_threshold
    /\ job.status = SUCCESS
    /\ job.replace = "ok"

\* ------------------------------------------------------------------ C37
\* the verification of the job ran to its end
Verified == Terminal /\ job.cfg.verify /\ job.probe # "none"

\* C37: the verification is decided before the size check.  An output that cannot
\* be probed or scored ends FAILED and an output scored below the threshold ends
\* LOWQUALITY, whatever its size: never LARGESIZE.
C37_VerificationBeforeSizeCheck ==
    Verified =>
        /\ (job.probe = "corrupt" \/ job.vmaf_score = None) => job.status = FAILED
        /\ (job.vmaf_score # None /\ job.vmaf_score < job.cfg.delete_threshold)
               => job.status = LOWQUALITY
        /\ job.status = LARGESIZE =>
               (job.vmaf_score # None /\ job.vmaf_score >= job.cfg.delete_threshold)

\* an output below the threshold and not smaller than the original, with the size
\* check on, ended LOWQUALITY
C37_Witness ==
    /\ Verified
    /\ job.cfg.check_size
    /\ job.status = LOWQUALITY
    /\ job.encoded_size >= job.pre.size

\* ------------------------------------------------------------------ uninterrupted runs
\* a start of the batch process with the default filters
RunStartup ==
    StartupWith({[min_size |-> SizeText(1, "b"), min_resolution |-> "none"]}, RunOptions)

\* one step of the loop of encode_videos and of the job it runs
LoopStep ==
    \/ Dequeue
    \/ JobEncode
    \/ TranscoderExit
    \/ VerifyDone
    \/ Record
    \/ Finish

NextRun ==
    \/ RunStartup
    \/ LoopStep

\* the batch scheduler with no interrupt from the operator: the process keeps
\* running the loop, and every transcoder and VMAF invocation returns
SpecRun == Init /\ [][NextRun]_vars /\ WF_vars(LoopStep)

\* ------------------------------------------------------------------ C38
\* C38: without an interrupt the loop of a run ends with the queue empty; every
\* iteration removes exactly one entry, no other step of the run changes the queue,
\* at most one job exists at a time, and at the end every file that was queued has
\* been processed exactly once.
C38_LoopTerminates ==
    /\ (pc = "loop") ~> (pc = "finished" /\ video_queue = {})
    /\ [][/\ Dequeues =>
                /\ video_queue' \subseteq video_queue
                /\ Cardinality(video_queue') = Cardinality(video_queue) - 1
                /\ job'.f \notin QueueFiles(video_queue')
          /\ (~Dequeues /\ ~StartupStep) => video_queue' = video_queue]_vars
    /\ [](pc = "loop" => ~HasJob)
    /\ [](pc = "finished" =>
             /\ \A f \in hist.cand : hist.recorded[f] = 1
             /\ \A f \in Files \ hist.cand : hist.recorded[f] = 0)

\* a run of two queued files ended
C38_Witness ==
    /\ pc = "finished"
    /\ Cardinality(hist.cand) >= 2
    /\ \A f \in hist.cand : hist.recorded[f] = 1

\* ------------------------------------------------------------------ C39
\* the files with a log in a skipped map
SkippedFiles(skipped) == {f \in Files : skipped[f] # NoReason}

\* no file is in two of the succeeded set, the failed set, the skipped map and the queue
Partitioned(succ, fail, skipped, q) ==
    /\ succ \cap fail = {}
    /\ succ \cap SkippedFiles(skipped) = {}
    /\ fail \cap SkippedFiles(skipped) = {}
    /\ QueueFiles(q) \cap (succ \cup fail \cup SkippedFiles(skipped)) = {}

\* C39: in memory and in the state file, no file is in more than one of the succeeded
\* set, the failed set and the skipped map, and no queued file is in any of them.
C39_ResultSetsDisjoint ==
    /\ Partitioned(success_encodings, failed_encodings, skipped_videos, video_queue)
    /\ state_file # NoState =>
           Partitioned(state_file.success_encodings, state_file.failed_encodings,
                       state_file.skipped_videos, state_file.video_queue)

\* between two jobs of a resumed run, a file recorded and another still queued
C39_Witness ==
    /\ pc = "loop"
    /\ hist.resumed
    /\ video_queue # {}
    /\ success_encodings \cup failed_encodings \cup SkippedFiles(skipped_videos) # {}
    /\ state_file.video_queue = video_queue

\* ------------------------------------------------------------------ C40
\* a start with parameters p and options o that resumes the persisted session
ResumesWith(p, o) == StartupWith({p}, {o}) /\ hist'.resumed

\* the resumed run holds the persisted queue and result sets
ContinuesPersisted ==
    /\ video_queue' = Get(state_file, "video_queue", {})
    /\ success_encodings' = Get(state_file, "success_encodings", {})
    /\ failed_encodings' = Get(state_file, "failed_encodings", {})
    /\ skipped_videos' = Get(state_file, "skipped_videos", NoSkipped)

\* C40: whether a start can resume depends on the directory, the minimum size, the
\* minimum resolution and the persisted queue being non-empty, and on none of the
\* options codec, verify and force; whatever the options, a resumed run continues
\* with the persisted queue and result sets.
C40_ResumeIgnoresOptions ==
    (pc \in {"off", "finished"} /\ runs < MaxRuns) =>
        \A p \in RunParams, o \in RunOptions :
            /\ (ENABLED ResumesWith(p, o)) <=> ResumableWithDefaults(state_file, p)
            /\ ~ENABLED (ResumesWith(p, o) /\ ~ContinuesPersisted)

\* a session resumed by a start with the options verify, force and av1
C40_Witness ==
    /\ pc = "loop"
    /\ hist.resumed
    /\ opts.verify /\ opts.force /\ opts.codec = "av1"
    /\ video_queue # {}
    /\ state_file.video_queue = video_queue

====
